---- MODULE Spec2Model ----
(***************************************************************************)
(* State machine of the stateful NAT64 translator                          *)
(* (src/src/core/net/nat64_translator.cpp, class ot::Nat64::Translator).   *)
(*                                                                         *)
(* Packets are modelled by the header fields the translator reads and      *)
(* writes; payload bytes and checksums are not part of this model.         *)
(* Collaborators whose code lives outside the two source files (Notifier,  *)
(* Pool, Array, LinkedList, Random, the AddressMapping::Matches overloads, *)
(* the constants of nat64_translator.hpp) are modelled from the            *)
(* specification.                                                          *)
(***************************************************************************)
EXTENDS Integers, Sequences, FiniteSets, TLC

VARIABLES
    portTranslationEnable,   \* OPENTHREAD_CONFIG_NAT64_PORT_TRANSLATION_ENABLE (build option)
    mEnabled,                \* Translator::mEnabled
    mState,                  \* Translator::mState
    mIp4Cidr,                \* Translator::mIp4Cidr  [mAddress, mLength]
    mNat64Prefix,            \* Translator::mNat64Prefix (its length; 0 = cleared)
    mIp4AddressPool,         \* Array<Ip4::Address>: sequence, PushBack/PopBack at the tail
    mAddressMappingPool,     \* Pool<AddressMapping>: [mPool: slot -> entry, mFreeList: seq of slots]
    mActiveAddressMappings,  \* LinkedList<AddressMapping>: sequence of slots, head first
    mNextMappingId,          \* Translator::mNextMappingId
    mMappingExpirerTimer,    \* fire time of the expiry timer
    now,                     \* TimerMilli::GetNow()
    maxCreatedId             \* history: largest mapping id handed out so far

vars == << portTranslationEnable, mEnabled, mState, mIp4Cidr, mNat64Prefix,
           mIp4AddressPool, mAddressMappingPool, mActiveAddressMappings,
           mNextMappingId, mMappingExpirerTimer, now, maxCreatedId >>

----------------------------------------------------------------------------
(* Bounds of the model *)

\* Number of AddressMapping slots (OPENTHREAD_CONFIG_NAT64_MAX_MAPPINGS), scaled down.
kAddressMappingPoolSize == 2

\* The clock runs from 0 to MaxTime.
MaxTime == 2

\* Width in bits of mNextMappingId (64 in the program), scaled down.
IdBits == 1

----------------------------------------------------------------------------
(* Constants of the program *)

kStateDisabled   == "Disabled"
kStateNotRunning == "NotRunning"
kStateIdle       == "Idle"
kStateActive     == "Active"

kForward       == "Forward"
kNotTranslated == "NotTranslated"
kDrop          == "Drop"

kProtoUdp   == 17
kProtoTcp   == 6
kProtoIcmp6 == 58
kProtoIcmp  == 1
kProtoSctp  == 132

kIcmp6TypeEchoRequest == 128
kIcmp6TypeEchoReply   == 129
kIcmp4TypeEchoRequest == 8
kIcmp4TypeEchoReply   == 0

kTranslationPortRangeStart == 49152
kTranslationPortRangeEnd   == 65535

\* Idle timeouts, in clock ticks of the model (T_icmp <= T_udp_tcp).
kAddressMappingIdleTimeoutMsec     == 2
kAddressMappingIcmpIdleTimeoutMsec == 1

\* CIDR lengths above this one use the first pool address for every mapping.
kMaxCidrLenForValidAddrPool == 30

\* Initial value of mEnabled (the constructor's initialiser list does not name it).
kEnabledAtConstruction == FALSE

Pow2(n) == 2 ^ n

IdModulus == Pow2(IdBits)

Min(a, b) == IF a < b THEN a ELSE b


----------------------------------------------------------------------------
(* Inputs the environment can present *)

Slots == 1 .. kAddressMappingPoolSize

\* nullptr of AddressMapping *
kNull == 0

\* Value of a field that was never written (indeterminate storage).
kIndeterminate == 0 - 1

\* IPv6 source addresses of the hosts behind the translator.
Ip6Sources == {1, 2}

\* Source ports / ICMP identifiers used by those hosts (one even, one odd).
SrcPorts == {33000, 33001}

\* 10.0.0.0, the address of every CIDR offered to SetIp4Cidr.
CidrBase == 10 * Pow2(24)

\* Lengths offered to SetIp4Cidr: rejected (0, 33), address per mapping (29), first
\* address for every mapping (31).
CidrLengths == {0, 29, 31, 33}

\* Lengths offered to SetNat64Prefix: empty, not a NAT64 length (72), valid (96).
PrefixLengths == {0, 72, 96}

\* Samples Random::NonCrypto::GetUint16InRange(start, end) can return: the two
\* ends of the sampling range [kTranslationPortRangeStart, kTranslationPortRangeEnd]
\* and one value inside it.
PortCandidates ==
    {kTranslationPortRangeStart, kTranslationPortRangeStart + 2, kTranslationPortRangeEnd}

\* Headers of the datagrams handed to TranslateFromIp6 (Ip6::Headers).
\* dstMatchLen: number of leading bits the destination shares with the NAT64 prefix bits.
Ip6Packets ==
    [parseOk : {TRUE}, src : Ip6Sources, srcPortOrId : SrcPorts,
     proto : {kProtoUdp, kProtoTcp, kProtoSctp}, icmpType : {kIcmp6TypeEchoRequest},
     dstMatchLen : {0, 96}]
    \cup
    [parseOk : {TRUE}, src : Ip6Sources, srcPortOrId : SrcPorts,
     proto : {kProtoIcmp6}, icmpType : {kIcmp6TypeEchoRequest, kIcmp6TypeEchoReply},
     dstMatchLen : {96}]
    \cup
    [parseOk : {FALSE}, src : {1}, srcPortOrId : {33000},
     proto : {kProtoUdp}, icmpType : {kIcmp6TypeEchoRequest}, dstMatchLen : {96}]

----------------------------------------------------------------------------
(* Pure helpers *)

Range(f) == {f[i] : i \in DOMAIN f}

Reverse(s) == [i \in 1 .. Len(s) |-> s[Len(s) + 1 - i]]

Max(a, b) == IF a > b THEN a ELSE b

IsValidNat64(aLength) == aLength \in {32, 40, 48, 56, 64, 96}

MatchesPrefix(aMatchLen, aPrefixLength) == aMatchLen >= aPrefixLength

\* The low 32 - aLength bits of a 32-bit value.  The addresses and host ids of the
\* model are below 2^31, so under a prefix of at most one bit it is the value.
HostPart(aValue, aLength) ==
    IF aLength <= 1 THEN aValue ELSE aValue % Pow2(32 - aLength)

\* The prefix bits of aCidr followed by the low bits of aHost.
SynthesizeFromCidrAndHost(aCidr, aHost) ==
    (aCidr.mAddress - HostPart(aCidr.mAddress, aCidr.mLength))
        + HostPart(aHost, aCidr.mLength)

ClearedCidr == [mAddress |-> 0, mLength |-> 0]

\* An AddressMapping slot nobody has written yet.
BlankMapping ==
    [mId |-> kIndeterminate, mIp6 |-> kIndeterminate, mIp4 |-> kIndeterminate,
     mSrcPortOrId |-> kIndeterminate, mTranslatedPortOrId |-> kIndeterminate,
     mExpiry |-> kIndeterminate]

\* AddressMapping::Matches overloads
MatchesIp6(aMapping, aIp6, aPort, aPortTranslation) ==
    IF aPortTranslation
    THEN aMapping.mIp6 = aIp6 /\ aMapping.mSrcPortOrId = aPort
    ELSE aMapping.mIp6 = aIp6

MatchesIp4(aMapping, aIp4, aPort, aPortTranslation) ==
    IF aPortTranslation
    THEN aMapping.mIp4 = aIp4 /\ aMapping.mTranslatedPortOrId = aPort
    ELSE aMapping.mIp4 = aIp4

MatchesPort(aMapping, aPort) == aMapping.mTranslatedPortOrId = aPort

MatchesExpired(aMapping, aNow) == aMapping.mExpiry < aNow

\* Pool<AddressMapping>: Free pushes the slot on the free list, Allocate pops its
\* head, FreeAll pushes every slot in index order.
\* The bytes of a slot on the free list are not part of the state: AllocateMapping
\* writes every field of a new mapping before anything reads it, except that the
\* loop of AllocateSourcePort also compares its sample with the bytes the new slot
\* still holds in mTranslatedPortOrId, which can only reject one more sample.
PoolFree(aPool, aSlot) ==
    [mPool |-> [aPool.mPool EXCEPT ![aSlot] = BlankMapping],
     mFreeList |-> <<aSlot>> \o aPool.mFreeList]

PoolFreeAll(aPool) ==
    [mPool |-> [s \in Slots |-> BlankMapping],
     mFreeList |-> [i \in Slots |-> kAddressMappingPoolSize + 1 - i]]

\* Array<Ip4::Address, kAddressMappingPoolSize>::PushBack
PushBack(aArray, aAddress) ==
    IF Len(aArray) < kAddressMappingPoolSize THEN Append(aArray, aAddress) ELSE aArray

\* The mapping operations work on a table [pool, amp, active] of the three containers
\* mIp4AddressPool, mAddressMappingPool and mActiveAddressMappings.
Entry(aTable, aSlot) == aTable.amp.mPool[aSlot]

\* ReleaseMapping without the PushBack of the mapping's address.
ReturnsAddressNever(aCidrLength) == FALSE

\* The test of ReleaseMapping: the address of a released mapping goes back to the pool.
ReturnsAddress(aCidrLength) == aCidrLength <= kMaxCidrLenForValidAddrPool

\* AllocateMapping that pops an address from the pool whatever the CIDR length.
UsesFirstAddressNever(aCidrLength) == FALSE

\* The test of AllocateMapping: every mapping takes the first address of the pool.
UsesFirstAddress(aCidrLength) == aCidrLength > kMaxCidrLenForValidAddrPool

\* ReleaseMapping without mAddressMappingPool.Free(aMapping).
ReleaseMappingKeepingSlot(aTable, aSlot, aCidrLength) ==
    [pool   |-> IF ReturnsAddress(aCidrLength)
                THEN PushBack(aTable.pool, Entry(aTable, aSlot).mIp4)
                ELSE aTable.pool,
     amp    |-> aTable.amp,
     active |-> aTable.active]

ReleaseMapping(aTable, aSlot, aCidrLength) ==
    [pool   |-> IF ReturnsAddress(aCidrLength)
                THEN PushBack(aTable.pool, Entry(aTable, aSlot).mIp4)
                ELSE aTable.pool,
     amp    |-> PoolFree(aTable.amp, aSlot),
     active |-> aTable.active]

\* Pops aMappings from its head and releases each mapping.
RECURSIVE ReleaseMappings(_, _, _)
ReleaseMappings(aTable, aMappings, aCidrLength) ==
    IF aMappings = << >>
    THEN aTable
    ELSE ReleaseMappings(ReleaseMapping(aTable, Head(aMappings), aCidrLength),
                         Tail(aMappings), aCidrLength)

\* ReleaseExpiredMappings that finds nothing expired.
ReleaseExpiredMappingsNone(aTable, aNow, aCidrLength) == [t |-> aTable, n |-> 0]

\* ReleaseExpiredMappings that also takes the mappings expiring at aNow.
ReleaseExpiredMappingsInclusive(aTable, aNow, aCidrLength) ==
    LET expired(s) == Entry(aTable, s).mExpiry <= aNow
        kept(s)    == ~expired(s)
        idleMappings == Reverse(SelectSeq(aTable.active, expired))
        remaining    == [aTable EXCEPT !.active = SelectSeq(aTable.active, kept)]
    IN  [t |-> ReleaseMappings(remaining, idleMappings, aCidrLength),
         n |-> Len(idleMappings)]

\* RemoveAllMatching moves the expired mappings, in list order, to the head of
\* idleMappings; ReleaseMappings then releases them.  [t: table after, n: count]
ReleaseExpiredMappings(aTable, aNow, aCidrLength) ==
    LET expired(s) == MatchesExpired(Entry(aTable, s), aNow)
        kept(s)    == ~expired(s)
        idleMappings == Reverse(SelectSeq(aTable.active, expired))
        remaining    == [aTable EXCEPT !.active = SelectSeq(aTable.active, kept)]
    IN  [t |-> ReleaseMappings(remaining, idleMappings, aCidrLength),
         n |-> Len(idleMappings)]

\* One pass of the loop body of AllocateSourcePort: the sample aRandom with the
\* parity adjustment, in 16-bit arithmetic.
AllocateSourcePortSample(aSrcPort, aRandom) ==
    IF (aSrcPort + aRandom) % 2 = 1 THEN (aRandom + 1) % Pow2(16) ELSE aRandom

\* A loop condition of AllocateSourcePort that takes every sample.
ContainsMatchingNever(aTable, aPort) == FALSE

\* mActiveAddressMappings.ContainsMatching(retPort), the loop condition.
ContainsMatching(aTable, aPort) ==
    \E i \in 1 .. Len(aTable.active) : MatchesPort(Entry(aTable, aTable.active[i]), aPort)

Touch(aMapping, aNow, aProtocol) ==
    [aMapping EXCEPT !.mExpiry =
        IF aProtocol = kProtoIcmp6 \/ aProtocol = kProtoIcmp
        THEN aNow + kAddressMappingIcmpIdleTimeoutMsec
        ELSE aNow + kAddressMappingIdleTimeoutMsec]

\* LinkedList::FindMatching: the first entry from the head that matches, or kNull.
FindMatchingIp6(aTable, aIp6, aPort, aPortTranslation) ==
    LET hits == SelectSeq(aTable.active,
                    LAMBDA s : MatchesIp6(Entry(aTable, s), aIp6, aPort, aPortTranslation))
    IN  IF hits = << >> THEN kNull ELSE Head(hits)

FindMatchingIp4(aTable, aIp4, aPort, aPortTranslation) ==
    LET hits == SelectSeq(aTable.active,
                    LAMBDA s : MatchesIp4(Entry(aTable, s), aIp4, aPort, aPortTranslation))
    IN  IF hits = << >> THEN kNull ELSE Head(hits)



\* AllocateMapping.  aRandom is the sample AllocateSourcePort draws in its last pass.
\* [t: table after, mapping: the slot or kNull, nextId, retry: the loop rejects aRandom]
AllocateMapping(aTable, aNextId, aIp6Headers, aRandom, aNow, aCidrLength, aPortTranslation) ==
    LET Fail(t) == [t |-> t, mapping |-> kNull, nextId |-> aNextId, retry |-> FALSE]
        \* mAddressMappingPool.Allocate() and the fields of the new mapping
        Create(t, ip4Addr) ==
            IF t.amp.mFreeList = << >>
            THEN Fail(t)
            ELSE
              LET slot    == Head(t.amp.mFreeList)
                  listed  == [t EXCEPT !.amp.mFreeList = Tail(t.amp.mFreeList),
                                       !.active = <<slot>> \o t.active]
                  id      == (aNextId + 1) % IdModulus
                  srcPort == IF aPortTranslation THEN aIp6Headers.srcPortOrId ELSE 0
                  retPort == IF aPortTranslation
                             THEN AllocateSourcePortSample(srcPort, aRandom)
                             ELSE 0
                  mapping == Touch([mId |-> id,
                                    mIp6 |-> aIp6Headers.src,
                                    mIp4 |-> ip4Addr,
                                    mSrcPortOrId |-> srcPort,
                                    mTranslatedPortOrId |-> retPort,
                                    mExpiry |-> kIndeterminate],
                                   aNow, aIp6Headers.proto)
              IN  [t       |-> [listed EXCEPT !.amp.mPool[slot] = mapping],
                   mapping |-> slot,
                   nextId  |-> id,
                   retry   |-> aPortTranslation /\ ContainsMatching(listed, retPort)]
        \* ip4Addr = *mIp4AddressPool.PopBack()
        PopBack(t) == Create([t EXCEPT !.pool = SubSeq(t.pool, 1, Len(t.pool) - 1)],
                             t.pool[Len(t.pool)])
        \* VerifyOrExit(ReleaseExpiredMappings() > 0)
        Swept(aSwept) == IF aSwept.n > 0 THEN PopBack(aSwept.t) ELSE Fail(aSwept.t)
    IN  IF UsesFirstAddress(aCidrLength)
        THEN Create(aTable, aTable.pool[1])
        ELSE IF aTable.pool = << >>
        THEN Swept(ReleaseExpiredMappings(aTable, aNow, aCidrLength))
        ELSE PopBack(aTable)

\* FindOrAllocateMapping without the lookup in the active list.
FindOrAllocateMappingNoLookup(aTable, aNextId, aIp6Headers, aRandom, aNow, aCidrLength, aPortTranslation) ==
    LET Allocated(a) == [t |-> a.t, mapping |-> a.mapping, nextId |-> a.nextId,
                         retry |-> a.retry, created |-> a.mapping # kNull]
    IN  Allocated(AllocateMapping(aTable, aNextId, aIp6Headers, aRandom, aNow,
                                  aCidrLength, aPortTranslation))

\* [t, mapping, nextId, retry, created: a mapping was allocated]
FindOrAllocateMapping(aTable, aNextId, aIp6Headers, aRandom, aNow, aCidrLength, aPortTranslation) ==
    LET Allocated(a) == [t |-> a.t, mapping |-> a.mapping, nextId |-> a.nextId,
                         retry |-> a.retry, created |-> a.mapping # kNull]
        Found(found) ==
            IF found # kNull
            THEN [t |-> aTable, mapping |-> found, nextId |-> aNextId, retry |-> FALSE,
                  created |-> FALSE]
            ELSE Allocated(AllocateMapping(aTable, aNextId, aIp6Headers, aRandom, aNow,
                                           aCidrLength, aPortTranslation))
    IN  Found(FindMatchingIp6(aTable, aIp6Headers.src, aIp6Headers.srcPortOrId,
                              aPortTranslation))

\* FindMapping that touches every mapping on the active list.
FindMappingTouchingAll(aTable, aIp4Headers, aNow, aPortTranslation) ==
    LET found == FindMatchingIp4(aTable, aIp4Headers.dst, aIp4Headers.dstPortOrId,
                                 aPortTranslation)
    IN  IF found # kNull
        THEN [t |-> [aTable EXCEPT !.amp.mPool =
                        [s \in Slots |->
                            IF s \in Range(aTable.active)
                            THEN Touch(aTable.amp.mPool[s], aNow, aIp4Headers.proto)
                            ELSE aTable.amp.mPool[s]]],
              mapping |-> found]
        ELSE [t |-> aTable, mapping |-> kNull]

\* [t, mapping]: the mapping found is touched.
FindMapping(aTable, aIp4Headers, aNow, aPortTranslation) ==
    LET found == FindMatchingIp4(aTable, aIp4Headers.dst, aIp4Headers.dstPortOrId,
                                 aPortTranslation)
    IN  IF found # kNull
        THEN [t |-> [aTable EXCEPT !.amp.mPool[found] = Touch(@, aNow, aIp4Headers.proto)],
              mapping |-> found]
        ELSE [t |-> aTable, mapping |-> kNull]

\* The ICMP header [mType, mId] at offset 0 of the message after TranslateIcmp6, with
\* the error returned: an echo request is rewritten, anything else is left as it is.
TranslateIcmp6Header(aIcmpHeader, aTranslatedId) ==
    IF aIcmpHeader.mType = kIcmp6TypeEchoRequest
    THEN [err |-> "None",
          header |-> [mType |-> kIcmp4TypeEchoRequest, mId |-> aTranslatedId]]
    ELSE [err |-> "InvalidArgs", header |-> aIcmpHeader]

\* The same for TranslateIcmp4: an echo reply is rewritten.
TranslateIcmp4Header(aIcmpHeader, aOriginalId) ==
    IF aIcmpHeader.mType = kIcmp4TypeEchoReply
    THEN [err |-> "None",
          header |-> [mType |-> kIcmp6TypeEchoReply, mId |-> aOriginalId]]
    ELSE [err |-> "InvalidArgs", header |-> aIcmpHeader]

\* TranslateIcmp6 that takes every ICMPv6 type.
TranslateIcmp6AnyType(aIcmpType) == TRUE

\* Error TranslateIcmp6: TRUE for kErrorNone.
TranslateIcmp6(aIcmpType) == aIcmpType = kIcmp6TypeEchoRequest

\* Error TranslateIcmp4: TRUE for kErrorNone.
TranslateIcmp4(aIcmpType) == aIcmpType = kIcmp4TypeEchoReply

----------------------------------------------------------------------------
(* The entry points, as functions of the translator's state.  Each takes the state *)
(* st it is called in and yields the state it leaves, with what it returns.        *)

\* The translator's state as a record: the variables, the three containers as st.t.
State ==
    [portTranslationEnable |-> portTranslationEnable,
     mEnabled |-> mEnabled, mState |-> mState, mIp4Cidr |-> mIp4Cidr,
     mNat64Prefix |-> mNat64Prefix,
     t |-> [pool |-> mIp4AddressPool, amp |-> mAddressMappingPool,
            active |-> mActiveAddressMappings],
     mNextMappingId |-> mNextMappingId, mMappingExpirerTimer |-> mMappingExpirerTimer,
     now |-> now, maxCreatedId |-> maxCreatedId]

NoOutput == [src |-> kNull, srcPort |-> kNull, dst |-> kNull, dstPort |-> kNull]

\* TranslateFromIp6 that goes on to the datagram whenever a CIDR is configured.
IsNotTranslatingCidrOnly(aCidrLength, aPrefixLength) == aCidrLength = 0

\* The first test of TranslateFromIp6: nothing is translated without a CIDR and a
\* valid NAT64 prefix.
IsNotTranslating(aCidrLength, aPrefixLength) ==
    aCidrLength = 0 \/ ~IsValidNat64(aPrefixLength)

\* TranslateFromIp6 on the datagram aIp6Headers:
\* [st, res, reason, out: the addresses and ports written, mapping: the slot used,
\*  created: the mapping is new, retry: AllocateSourcePort draws again]
\* The Prepend of the IPv4 header does not fail: RemoveHeader has just freed the 40
\* bytes of the IPv6 header.
TranslateFromIp6Result(st, aIp6Headers, aRandom) ==
    LET early(aRes, aReason) ==
            [st |-> st, res |-> aRes, reason |-> aReason, out |-> NoOutput,
             mapping |-> kNull, created |-> FALSE, retry |-> FALSE]
    IN
    IF IsNotTranslating(st.mIp4Cidr.mLength, st.mNat64Prefix)
    THEN early(kNotTranslated, "None")
    ELSE IF ~aIp6Headers.parseOk
    THEN early(kDrop, "IllegalPacket")
    ELSE IF ~MatchesPrefix(aIp6Headers.dstMatchLen, st.mNat64Prefix)
    THEN early(kNotTranslated, "None")
    ELSE
      LET Mapped(m) ==
            LET st1 == [st EXCEPT !.t = m.t,
                                  !.mNextMappingId = m.nextId,
                                  !.maxCreatedId = IF m.created THEN Max(@, m.nextId) ELSE @]
                late(aRes, aReason, aOut) ==
                  [st |-> st1, res |-> aRes, reason |-> aReason, out |-> aOut,
                   mapping |-> m.mapping, created |-> m.created, retry |-> m.retry]
                mapping     == Entry(m.t, m.mapping)
                srcPortOrId == IF st.portTranslationEnable
                               THEN mapping.mTranslatedPortOrId
                               ELSE aIp6Headers.srcPortOrId
                out         == [src |-> mapping.mIp4, srcPort |-> srcPortOrId,
                                dst |-> kNull, dstPort |-> kNull]
            IN  IF m.mapping = kNull
                THEN late(kDrop, "NoMapping", NoOutput)
                ELSE CASE aIp6Headers.proto \in {kProtoUdp, kProtoTcp} ->
                            late(kForward, "None", out)
                       [] aIp6Headers.proto = kProtoIcmp6 ->
                            IF TranslateIcmp6(aIp6Headers.icmpType)
                            THEN late(kForward, "None", out)
                            ELSE late(kDrop, "Unknown", NoOutput)
                       [] OTHER ->
                            late(kDrop, "UnsupportedProto", NoOutput)
      IN  Mapped(FindOrAllocateMapping(st.t, st.mNextMappingId, aIp6Headers, aRandom,
                                       st.now, st.mIp4Cidr.mLength,
                                       st.portTranslationEnable))

\* TranslateToIp6 without the bypass for a translator that has no CIDR.
IsBypassedNever(aCidrLength) == FALSE

\* The test of TranslateToIp6 for "NAT64 translation is bypassed": no CIDR is configured.
IsBypassed(aCidrLength) == aCidrLength = 0

\* TranslateToIp6 on the datagram aIp4Headers: [st, res, reason, out, mapping]
\* isIp6: the message parses as an IPv6 datagram; prependOk: the buffer has the
\* headroom for the IPv6 header.
TranslateToIp6Result(st, aIp4Headers) ==
    LET early(aRes, aReason) ==
            [st |-> st, res |-> aRes, reason |-> aReason, out |-> NoOutput,
             mapping |-> kNull]
    IN
    IF aIp4Headers.isIp6
    THEN early(kNotTranslated, "None")
    ELSE IF IsBypassed(st.mIp4Cidr.mLength)
    THEN early(kForward, "None")
    ELSE IF ~IsValidNat64(st.mNat64Prefix)
    THEN early(kDrop, "Unknown")
    ELSE IF ~aIp4Headers.parseOk
    THEN early(kDrop, "IllegalPacket")
    ELSE
      LET Mapped(m) ==
            LET late(aRes, aReason, aOut) ==
                  [st |-> [st EXCEPT !.t = m.t], res |-> aRes, reason |-> aReason,
                   out |-> aOut, mapping |-> m.mapping]
                mapping     == Entry(m.t, m.mapping)
                dstPortOrId == IF st.portTranslationEnable
                               THEN mapping.mSrcPortOrId
                               ELSE aIp4Headers.dstPortOrId
                out         == [src |-> kNull, srcPort |-> kNull,
                                dst |-> mapping.mIp6, dstPort |-> dstPortOrId]
                Sent(aPrependOk) == IF aPrependOk
                                    THEN late(kForward, "None", out)
                                    ELSE late(kDrop, "Unknown", NoOutput)
            IN  IF m.mapping = kNull
                THEN late(kDrop, "NoMapping", NoOutput)
                ELSE CASE aIp4Headers.proto \in {kProtoUdp, kProtoTcp} ->
                            Sent(aIp4Headers.prependOk)
                       [] aIp4Headers.proto = kProtoIcmp ->
                            IF TranslateIcmp4(aIp4Headers.icmpType)
                            THEN Sent(aIp4Headers.prependOk)
                            ELSE late(kDrop, "Unknown", NoOutput)
                       [] OTHER ->
                            late(kDrop, "UnsupportedProto", NoOutput)
      IN  Mapped(FindMapping(st.t, aIp4Headers, st.now, st.portTranslationEnable))


----------------------------------------------------------------------------
(* Lifecycle state and control plane *)

\* UpdateState that takes any configured prefix for a NAT64 prefix.
UpdateStateAnyPrefix(aEnabled, aCidrLength, aPrefixLength) ==
    IF aEnabled
    THEN IF aCidrLength > 0 /\ aPrefixLength > 0
         THEN kStateActive
         ELSE kStateNotRunning
    ELSE kStateDisabled

\* The state UpdateState derives from the configuration.
UpdateState(aEnabled, aCidrLength, aPrefixLength) ==
    IF aEnabled
    THEN IF aCidrLength > 0 /\ IsValidNat64(aPrefixLength)
         THEN kStateActive
         ELSE kStateNotRunning
    ELSE kStateDisabled

\* Notifier::Update(mState, newState, event): the number of Signal calls it makes.
NotifierUpdate(aOldState, aNewState) == IF aOldState # aNewState THEN 1 ELSE 0

\* st after UpdateState, with the number of StateChanged signals of the call so far.
\* [st, signals]
Updated(st, aSignals) ==
    LET newState == UpdateState(st.mEnabled, st.mIp4Cidr.mLength, st.mNat64Prefix)
    IN  [st |-> [st EXCEPT !.mState = newState],
         signals |-> aSignals + NotifierUpdate(st.mState, newState)]

Unchanged(st) == [st |-> st, signals |-> 0]

\* SetIp4Cidr without its own Signal call.
SetIp4CidrSignalOmitted(aSignals) == aSignals

\* Signals of SetIp4Cidr after its UpdateState: Get<Notifier>().Signal(...).
SetIp4CidrSignal(aSignals) == aSignals + 1

\* SetIp4Cidr that starts every enumeration at host id 0.
CidrHostsFromZero(aLength) ==
    LET plan == IF aLength = 32 THEN [hostIdBegin |-> 0, numberOfHosts |-> 1]
                ELSE IF aLength = 31 THEN [hostIdBegin |-> 0, numberOfHosts |-> 2]
                ELSE [hostIdBegin |-> 0,
                      numberOfHosts |-> (Pow2(31 - aLength) - 1) * 2]
    IN  [plan EXCEPT !.numberOfHosts = Min(@, kAddressMappingPoolSize)]

\* Host ids SetIp4Cidr enumerates for a CIDR length: [hostIdBegin, numberOfHosts]
\* (1 << (32 - length)) - 2 is computed in int and cast to uint32_t: for length 1
\* the shift gives the sign bit and the subtraction leaves the range of int; in
\* two's complement the cast yields 2^31 - 2, the value of the formula modulo 2^32.
\* The value is written as (2^(31-length) - 1) * 2, which stays below 2^31.
CidrHosts(aLength) ==
    LET plan == IF aLength = 32 THEN [hostIdBegin |-> 0, numberOfHosts |-> 1]
                ELSE IF aLength = 31 THEN [hostIdBegin |-> 0, numberOfHosts |-> 2]
                ELSE [hostIdBegin |-> 1,
                      numberOfHosts |-> (Pow2(31 - aLength) - 1) * 2]
    IN  [plan EXCEPT !.numberOfHosts = Min(@, kAddressMappingPoolSize)]

\* The address pool SetIp4Cidr builds.
CidrAddressPool(aCidr) ==
    LET plan == CidrHosts(aCidr.mLength)
    IN  [i \in 1 .. plan.numberOfHosts |->
            SynthesizeFromCidrAndHost(aCidr, (i - 1) + plan.hostIdBegin)]

\* [st, signals]
SetEnabledResult(st, aEnabled) ==
    IF st.mEnabled = aEnabled
    THEN Unchanged(st)
    ELSE LET t == IF ~aEnabled
                  THEN [ReleaseMappings(st.t, st.t.active, st.mIp4Cidr.mLength)
                           EXCEPT !.active = << >>]
                  ELSE st.t
         IN  Updated([st EXCEPT !.mEnabled = aEnabled, !.t = t], 0)

\* The first VerifyOrExit of SetIp4Cidr.
IsValidCidrLength(aLength) == aLength > 0 /\ aLength <= 32

\* SetIp4Cidr that flushes the mappings before it looks at the length.
SetIp4CidrResultFlushFirst(st, aCidr) ==
    LET flushed == [st EXCEPT !.t = [pool |-> << >>, amp |-> PoolFreeAll(st.t.amp),
                                     active |-> << >>]]
    IN  IF ~IsValidCidrLength(aCidr.mLength)
        THEN [st |-> flushed, signals |-> 0, error |-> "InvalidArgs"]
        ELSE IF st.mIp4Cidr = aCidr
        THEN [st |-> flushed, signals |-> 0, error |-> "None"]
        ELSE LET t == [pool   |-> CidrAddressPool(aCidr),
                       amp    |-> PoolFreeAll(st.t.amp),
                       active |-> << >>]
                 u == Updated([st EXCEPT !.t = t, !.mIp4Cidr = aCidr], 0)
             IN  [st |-> u.st, signals |-> SetIp4CidrSignal(u.signals), error |-> "None"]

\* SetIp4Cidr without mActiveAddressMappings.Clear().
SetIp4CidrResultKeepingMappings(st, aCidr) ==
    IF ~IsValidCidrLength(aCidr.mLength)
    THEN [st |-> st, signals |-> 0, error |-> "InvalidArgs"]
    ELSE IF st.mIp4Cidr = aCidr
    THEN [st |-> st, signals |-> 0, error |-> "None"]
    ELSE LET t == [pool   |-> CidrAddressPool(aCidr),
                   amp    |-> PoolFreeAll(st.t.amp),
                   active |-> st.t.active]
             u == Updated([st EXCEPT !.t = t, !.mIp4Cidr = aCidr], 0)
         IN  [st |-> u.st, signals |-> SetIp4CidrSignal(u.signals), error |-> "None"]

\* [st, signals, error]
SetIp4CidrResult(st, aCidr) ==
    IF ~IsValidCidrLength(aCidr.mLength)
    THEN [st |-> st, signals |-> 0, error |-> "InvalidArgs"]
    ELSE IF st.mIp4Cidr = aCidr
    THEN [st |-> st, signals |-> 0, error |-> "None"]
    ELSE LET t == [pool   |-> CidrAddressPool(aCidr),
                   amp    |-> PoolFreeAll(st.t.amp),
                   active |-> << >>]
             u == Updated([st EXCEPT !.t = t, !.mIp4Cidr = aCidr], 0)
         IN  [st |-> u.st, signals |-> SetIp4CidrSignal(u.signals), error |-> "None"]

\* ClearIp4Cidr without mIp4AddressPool.Clear().
ClearIp4CidrResultKeepingPool(st) ==
    Updated([st EXCEPT !.mIp4Cidr = ClearedCidr,
                       !.t = [pool |-> st.t.pool, amp |-> PoolFreeAll(st.t.amp),
                              active |-> << >>]], 0)

ClearIp4CidrResult(st) ==
    Updated([st EXCEPT !.mIp4Cidr = ClearedCidr,
                       !.t = [pool |-> << >>, amp |-> PoolFreeAll(st.t.amp),
                              active |-> << >>]], 0)

ClearNat64PrefixResult(st) ==
    IF st.mNat64Prefix = 0
    THEN Unchanged(st)
    ELSE Updated([st EXCEPT !.mNat64Prefix = 0], 0)

SetNat64PrefixResult(st, aLength) ==
    IF aLength = 0
    THEN ClearNat64PrefixResult(st)
    ELSE IF st.mNat64Prefix # aLength
    THEN Updated([st EXCEPT !.mNat64Prefix = aLength], 0)
    ELSE Unchanged(st)

\* HandleMappingExpirerTimer that starts the timer again without the sweep.
HandleMappingExpirerTimerResultNoSweep(st) ==
    [st |-> [st EXCEPT !.mMappingExpirerTimer =
                           st.now + Min(kAddressMappingIcmpIdleTimeoutMsec,
                                        kAddressMappingIdleTimeoutMsec)],
     numReleased |-> 0]

\* [st, numReleased]
HandleMappingExpirerTimerResult(st) ==
    LET swept == ReleaseExpiredMappings(st.t, st.now, st.mIp4Cidr.mLength)
    IN  [st |-> [st EXCEPT !.t = swept.t,
                           !.mMappingExpirerTimer =
                               st.now + Min(kAddressMappingIcmpIdleTimeoutMsec,
                                            kAddressMappingIdleTimeoutMsec)],
         numReleased |-> swept.n]

\* Error GetIp4Cidr(Ip4::Cidr &aCidr): [error, cidr]
GetIp4Cidr(st) ==
    IF st.mIp4Cidr.mLength > 0
    THEN [error |-> "None", cidr |-> st.mIp4Cidr]
    ELSE [error |-> "NotFound", cidr |-> kIndeterminate]

\* Error GetIp6Prefix(Ip6::Prefix &aPrefix): [error, prefix]
GetIp6Prefix(st) ==
    IF st.mNat64Prefix > 0
    THEN [error |-> "None", prefix |-> st.mNat64Prefix]
    ELSE [error |-> "NotFound", prefix |-> kIndeterminate]

----------------------------------------------------------------------------
(* The iterator over the mappings *)

\* AddressMapping::CopyTo that reports the difference mExpiry - aNow as it is.
CopyToUnclamped(aMapping, aNow) ==
    [mId |-> aMapping.mId, mIp4 |-> aMapping.mIp4, mIp6 |-> aMapping.mIp6,
     mSrcPortOrId |-> aMapping.mSrcPortOrId,
     mTranslatedPortOrId |-> aMapping.mTranslatedPortOrId,
     mRemainingTimeMs |-> aMapping.mExpiry - aNow]

\* AddressMapping::CopyTo: the otNat64AddressMapping written (the packet counters
\* are copied with it; they are kept apart from the mapping table here).
CopyTo(aMapping, aNow) ==
    [mId |-> aMapping.mId, mIp4 |-> aMapping.mIp4, mIp6 |-> aMapping.mIp6,
     mSrcPortOrId |-> aMapping.mSrcPortOrId,
     mTranslatedPortOrId |-> aMapping.mTranslatedPortOrId,
     mRemainingTimeMs |-> IF aMapping.mExpiry < aNow THEN 0 ELSE aMapping.mExpiry - aNow]

\* LinkedList::GetHead: the first slot of the list, or kNull.
GetHead(aList) == IF aList = << >> THEN kNull ELSE Head(aList)

\* LinkedListEntry::GetNext: the slot that follows aSlot in the list, or kNull.
GetNext(aList, aSlot) ==
    LET after == {i \in 1 .. Len(aList) - 1 : aList[i] = aSlot}
    IN  IF after = {} THEN kNull ELSE aList[(CHOOSE i \in after : TRUE) + 1]

\* InitAddressMappingIterator: aIterator.mPtr
InitAddressMappingIterator(st) == GetHead(st.t.active)

\* GetNextAddressMapping: [error, mapping, iterator: aIterator.mPtr after the call]
GetNextAddressMapping(st, aIterator) ==
    IF aIterator = kNull
    THEN [error |-> "NotFound", mapping |-> kIndeterminate, iterator |-> aIterator]
    ELSE [error |-> "None", mapping |-> CopyTo(Entry(st.t, aIterator), st.now),
          iterator |-> GetNext(st.t.active, aIterator)]

\* The records GetNextAddressMapping returns in at most aCalls calls from aIterator,
\* up to its first NotFound.
RECURSIVE Iterate(_, _, _)
Iterate(st, aIterator, aCalls) ==
    IF aCalls = 0 \/ GetNextAddressMapping(st, aIterator).error # "None"
    THEN << >>
    ELSE <<GetNextAddressMapping(st, aIterator).mapping>>
             \o Iterate(st, GetNextAddressMapping(st, aIterator).iterator, aCalls - 1)

----------------------------------------------------------------------------
(* Error counters *)
(* The translator only ever adds to mErrorCounters and never reads it, so the     *)
(* counters are not state of the machine: the exit block of a translation call is *)
(* a function from the counters before the call to the counters after it.         *)

\* ErrorCounters::Reason
Reasons == {"Unknown", "IllegalPacket", "NoMapping", "UnsupportedProto"}

\* ErrorCounters after Clear()
ClearedErrorCounters ==
    [mCount4To6 |-> [r \in Reasons |-> 0], mCount6To4 |-> [r \in Reasons |-> 0]]

\* ErrorCounters::Count6To4 / Count4To6
Count6To4(aCounters, aReason) == [aCounters EXCEPT !.mCount6To4[aReason] = @ + 1]

Count4To6(aCounters, aReason) == [aCounters EXCEPT !.mCount4To6[aReason] = @ + 1]

\* The exit block of TranslateFromIp6 that counts whatever the result.
TranslateFromIp6ExitAlways(aCounters, aRes, aReason) ==
    Count6To4(aCounters, IF aReason \in Reasons THEN aReason ELSE "Unknown")

\* The exit block of TranslateFromIp6.
TranslateFromIp6Exit(aCounters, aRes, aReason) ==
    IF aRes = kDrop THEN Count6To4(aCounters, aReason) ELSE aCounters

\* The exit block of TranslateToIp6.
TranslateToIp6Exit(aCounters, aRes, aReason) ==
    IF aRes = kDrop THEN Count4To6(aCounters, aReason) ELSE aCounters

----------------------------------------------------------------------------
(* Packet counters *)
(* Like the error counters, mCounters and the mCounters of each mapping are only *)
(* added to and copied out, so a translation call is a function from the         *)
(* counters before it to the counters after it.  The byte counts, which follow   *)
(* the packet counts line by line, are left out.                                 *)

\* ProtocolCounters after Clear()
ClearedProtocolCounters ==
    [c \in {"mUdp", "mTcp", "mIcmp", "mTotal"} |->
        [m6To4Packets |-> 0, m4To6Packets |-> 0]]

\* ProtocolCounters::Count6To4Packet without the count in mTotal.
Count6To4PacketNoTotal(aCounters, aProtocol) ==
    CASE aProtocol = kProtoUdp   -> [aCounters EXCEPT !.mUdp.m6To4Packets = @ + 1]
      [] aProtocol = kProtoTcp   -> [aCounters EXCEPT !.mTcp.m6To4Packets = @ + 1]
      [] aProtocol = kProtoIcmp6 -> [aCounters EXCEPT !.mIcmp.m6To4Packets = @ + 1]
      [] OTHER                   -> aCounters

\* ProtocolCounters::Count6To4Packet
Count6To4Packet(aCounters, aProtocol) ==
    LET Total(c) == [c EXCEPT !.mTotal.m6To4Packets = @ + 1]
    IN  CASE aProtocol = kProtoUdp ->
                 Total([aCounters EXCEPT !.mUdp.m6To4Packets = @ + 1])
          [] aProtocol = kProtoTcp ->
                 Total([aCounters EXCEPT !.mTcp.m6To4Packets = @ + 1])
          [] aProtocol = kProtoIcmp6 ->
                 Total([aCounters EXCEPT !.mIcmp.m6To4Packets = @ + 1])
          [] OTHER ->
                 Total(aCounters)

\* ProtocolCounters::Count4To6Packet
Count4To6Packet(aCounters, aProtocol) ==
    LET Total(c) == [c EXCEPT !.mTotal.m4To6Packets = @ + 1]
    IN  CASE aProtocol = kProtoUdp ->
                 Total([aCounters EXCEPT !.mUdp.m4To6Packets = @ + 1])
          [] aProtocol = kProtoTcp ->
                 Total([aCounters EXCEPT !.mTcp.m4To6Packets = @ + 1])
          [] aProtocol = kProtoIcmp ->
                 Total([aCounters EXCEPT !.mIcmp.m4To6Packets = @ + 1])
          [] OTHER ->
                 Total(aCounters)

\* The packet counters after TranslateFromIp6: [mCounters: the aggregate, mapping:
\* the counters of the mapping the call used].  AllocateMapping clears the counters
\* of a mapping it creates; the two counts are the last statements before exit,
\* reached by the calls that return kForward.
TranslateFromIp6Counters(aCounters, aResult, aProtocol) ==
    LET Counted(c) ==
            IF aResult.res = kForward
            THEN [mCounters |-> Count6To4Packet(c.mCounters, aProtocol),
                  mapping   |-> Count6To4Packet(c.mapping, aProtocol)]
            ELSE c
    IN  Counted(IF aResult.created
                THEN [aCounters EXCEPT !.mapping = ClearedProtocolCounters]
                ELSE aCounters)

\* The packet counters after TranslateToIp6: the calls that return kForward with a
\* mapping reach the two counts; the bypass returns kForward before FindMapping.
TranslateToIp6Counters(aCounters, aResult, aProtocol) ==
    IF aResult.res = kForward /\ aResult.mapping # kNull
    THEN [mCounters |-> Count4To6Packet(aCounters.mCounters, aProtocol),
          mapping   |-> Count4To6Packet(aCounters.mapping, aProtocol)]
    ELSE aCounters

----------------------------------------------------------------------------
(* The state machine *)

\* The variables take the values of st.
Becomes(st) ==
    /\ portTranslationEnable' = st.portTranslationEnable
    /\ mEnabled' = st.mEnabled
    /\ mState' = st.mState
    /\ mIp4Cidr' = st.mIp4Cidr
    /\ mNat64Prefix' = st.mNat64Prefix
    /\ mIp4AddressPool' = st.t.pool
    /\ mAddressMappingPool' = st.t.amp
    /\ mActiveAddressMappings' = st.t.active
    /\ mNextMappingId' = st.mNextMappingId
    /\ mMappingExpirerTimer' = st.mMappingExpirerTimer
    /\ now' = st.now
    /\ maxCreatedId' = st.maxCreatedId

\* State after Translator::Translator
Init ==
    /\ portTranslationEnable \in BOOLEAN
    /\ mEnabled = kEnabledAtConstruction
    /\ mState = kStateDisabled
    /\ mIp4Cidr = ClearedCidr
    /\ mNat64Prefix = 0
    /\ mIp4AddressPool = << >>
    /\ mAddressMappingPool = PoolFreeAll([mPool |-> << >>, mFreeList |-> << >>])
    /\ mActiveAddressMappings = << >>
    /\ mNextMappingId \in 0 .. IdModulus - 1
    /\ now = 0
    /\ mMappingExpirerTimer = kAddressMappingIdleTimeoutMsec
    /\ maxCreatedId = kIndeterminate

SetEnabled(aEnabled) ==
    LET r == SetEnabledResult(State, aEnabled)
    IN  Becomes(r.st)

SetIp4Cidr(aCidr) ==
    LET r == SetIp4CidrResult(State, aCidr)
    IN  Becomes(r.st)

ClearIp4Cidr ==
    LET r == ClearIp4CidrResult(State)
    IN  Becomes(r.st)

SetNat64Prefix(aLength) ==
    LET r == SetNat64PrefixResult(State, aLength)
    IN  Becomes(r.st)

ClearNat64Prefix ==
    LET r == ClearNat64PrefixResult(State)
    IN  Becomes(r.st)

\* A sample the loop of AllocateSourcePort rejects is drawn again, so the call
\* returns with a sample the loop accepts.  A call that allocates no source port
\* draws no sample: aRandom is then the first candidate.
TranslateFromIp6(aIp6Headers, aRandom) ==
    LET Returns(r) ==
            /\ ~r.retry
            /\ (r.created /\ portTranslationEnable) \/ aRandom = kTranslationPortRangeStart
            /\ Becomes(r.st)
    IN  Returns(TranslateFromIp6Result(State, aIp6Headers, aRandom))

TranslateToIp6(aIp4Headers) ==
    LET r == TranslateToIp6Result(State, aIp4Headers)
    IN  Becomes(r.st)

\* The timer fires once its fire time has come.
HandleMappingExpirerTimer ==
    /\ now >= mMappingExpirerTimer
    /\ Becomes(HandleMappingExpirerTimerResult(State).st)

\* The millisecond clock advances.
Tick ==
    /\ now < MaxTime
    /\ Becomes([State EXCEPT !.now = now + 1])

\* CIDRs offered to SetIp4Cidr
Ip4Cidrs == [mAddress : {CidrBase}, mLength : CidrLengths]

\* Destination address and port / ICMP identifier of the incoming IPv4 datagrams:
\* the reverse key of every active mapping, a second port for each of their
\* addresses, and one address no mapping has.
Ip4Destinations ==
    {<<mAddressMappingPool.mPool[s].mIp4, mAddressMappingPool.mPool[s].mTranslatedPortOrId>> :
        s \in Range(mActiveAddressMappings)}
    \cup {<<mAddressMappingPool.mPool[s].mIp4, 33000>> : s \in Range(mActiveAddressMappings)}
    \cup {<<CidrBase + kAddressMappingPoolSize + 1, 33000>>}

\* Headers of the datagrams handed to TranslateToIp6 (Ip4::Headers).
Ip4Packets ==
    {[isIp6 |-> FALSE, parseOk |-> TRUE, dst |-> d[1], dstPortOrId |-> d[2],
      proto |-> k[1], icmpType |-> k[2], prependOk |-> k[3]] :
        d \in Ip4Destinations,
        k \in {<<kProtoUdp, kIcmp4TypeEchoReply, TRUE>>,
               <<kProtoUdp, kIcmp4TypeEchoReply, FALSE>>,
               <<kProtoTcp, kIcmp4TypeEchoReply, TRUE>>,
               <<kProtoSctp, kIcmp4TypeEchoReply, TRUE>>,
               <<kProtoIcmp, kIcmp4TypeEchoReply, TRUE>>,
               <<kProtoIcmp, kIcmp4TypeEchoRequest, TRUE>>}}
    \cup
    [isIp6 : BOOLEAN, parseOk : {FALSE}, dst : {CidrBase},
     dstPortOrId : {33000}, proto : {kProtoUdp},
     icmpType : {kIcmp4TypeEchoReply}, prependOk : {TRUE}]

Next ==
    \/ \E aEnabled \in BOOLEAN : SetEnabled(aEnabled)
    \/ \E aCidr \in Ip4Cidrs : SetIp4Cidr(aCidr)
    \/ ClearIp4Cidr
    \/ \E aLength \in PrefixLengths : SetNat64Prefix(aLength)
    \/ ClearNat64Prefix
    \/ \E h \in Ip6Packets, aRandom \in PortCandidates : TranslateFromIp6(h, aRandom)
    \/ \E h \in Ip4Packets : TranslateToIp6(h)
    \/ HandleMappingExpirerTimer
    \/ Tick

Spec == Init /\ [][Next]_vars


----------------------------------------------------------------------------
(* Properties *)

ActiveMappings == {mAddressMappingPool.mPool[s] : s \in Range(mActiveAddressMappings)}

\* The mapping at position i of the active list.
ActiveAt(i) == mAddressMappingPool.mPool[mActiveAddressMappings[i]]

ActivePairs ==
    {p \in (1 .. Len(mActiveAddressMappings)) \X (1 .. Len(mActiveAddressMappings)) :
        p[1] < p[2]}

\* C1: after any sequence of SetEnabled, SetIp4Cidr, ClearIp4Cidr, SetNat64Prefix and
\* ClearNat64Prefix calls the public state is Disabled when the translator is not
\* enabled, Active when it is enabled with a CIDR of length > 0 and a NAT64 prefix of
\* length 32, 40, 48, 56, 64 or 96, and NotRunning otherwise; it is never Idle.
C1_StateFunction ==
    LET running == mIp4Cidr.mLength > 0 /\ mNat64Prefix \in {32, 40, 48, 56, 64, 96}
    IN  /\ ~mEnabled => mState = kStateDisabled
        /\ (mEnabled /\ running) => mState = kStateActive
        /\ (mEnabled /\ ~running) => mState = kStateNotRunning
        /\ mState # kStateIdle

\* The translator is enabled with a CIDR and a prefix that is not a NAT64 prefix.
C1_Witness ==
    /\ mEnabled
    /\ mIp4Cidr.mLength > 0
    /\ mNat64Prefix = 72
    /\ mState = kStateNotRunning

\* What each control-plane call would do in the current state: [st, signals]
ControlCalls ==
    {SetEnabledResult(State, e) : e \in BOOLEAN}
    \cup {[st |-> r.st, signals |-> r.signals] :
            r \in {SetIp4CidrResult(State, c) : c \in Ip4Cidrs}}
    \cup {ClearIp4CidrResult(State)}
    \cup {SetNat64PrefixResult(State, l) : l \in PrefixLengths}
    \cup {ClearNat64PrefixResult(State)}

\* C2 as stated: a control-plane call signals StateChanged exactly once when it
\* changes the public state and not at all when it does not.
C2_SignalPerTransition ==
    \A r \in ControlCalls :
        r.signals = IF r.st.mState # mState THEN 1 ELSE 0

\* C2 as amended: a control-plane call signals StateChanged once when it changes the
\* public state and not at all when it does not, except that a SetIp4Cidr call
\* that installs a CIDR other than the configured one makes one more Signal call.
C2_SignalPerTransitionOrNewCidr ==
    /\ \A r \in ControlCalls :
           (r.st.mIp4Cidr = mIp4Cidr \/ r.st.mIp4Cidr.mLength = 0) =>
               r.signals = IF r.st.mState # mState THEN 1 ELSE 0
    /\ \A c \in Ip4Cidrs :
           LET r == SetIp4CidrResult(State, c)
           IN  r.st.mIp4Cidr # mIp4Cidr =>
                   r.signals = 1 + (IF r.st.mState # mState THEN 1 ELSE 0)

\* Enabled with a valid prefix and no CIDR: SetIp4Cidr moves NotRunning to Active
\* and makes two Signal calls.
C2_Witness ==
    /\ mState = kStateNotRunning
    /\ \E c \in Ip4Cidrs :
           LET r == SetIp4CidrResult(State, c)
           IN  r.st.mState = kStateActive /\ r.signals = 2

\* The outbound lookup key of a mapping.
OutboundKey(aMapping) ==
    IF portTranslationEnable
    THEN <<aMapping.mIp6, aMapping.mSrcPortOrId>>
    ELSE <<aMapping.mIp6>>

\* The inbound lookup key of a mapping.
InboundKey(aMapping) ==
    IF portTranslationEnable
    THEN <<aMapping.mIp4, aMapping.mTranslatedPortOrId>>
    ELSE <<aMapping.mIp4>>

\* C3: any two distinct active mappings differ on the outbound lookup key,
\* (ip6, srcPortOrId) with port translation and ip6 alone without.
C3_OutboundKeysDistinct ==
    \A p \in ActivePairs : OutboundKey(ActiveAt(p[1])) # OutboundKey(ActiveAt(p[2]))

\* Two active mappings of the same IPv6 host, told apart by the source port.
C3_Witness ==
    /\ portTranslationEnable
    /\ \E p \in ActivePairs :
           /\ ActiveAt(p[1]).mIp6 = ActiveAt(p[2]).mIp6
           /\ ActiveAt(p[1]).mSrcPortOrId # ActiveAt(p[2]).mSrcPortOrId

\* C4 as stated: any two distinct active mappings differ on the inbound lookup key,
\* (ip4, translatedPortOrId) with port translation and ip4 alone without.
C4_InboundKeysDistinct ==
    \A p \in ActivePairs : InboundKey(ActiveAt(p[1])) # InboundKey(ActiveAt(p[2]))

\* C5 as stated: with port translation every active mapping's translatedPortOrId
\* lies in [49152, 65535] and has the parity of its srcPortOrId.
C5_PortRangeAndParity ==
    portTranslationEnable =>
        \A m \in ActiveMappings :
            /\ m.mTranslatedPortOrId >= 49152
            /\ m.mTranslatedPortOrId <= 65535
            /\ m.mTranslatedPortOrId % 2 = m.mSrcPortOrId % 2

\* The addresses SetIp4Cidr put in the pool for the configured CIDR.
HostAddresses ==
    IF mIp4Cidr.mLength = 0 THEN {} ELSE Range(CidrAddressPool(mIp4Cidr))

LargeCidr == mIp4Cidr.mLength <= kMaxCidrLenForValidAddrPool

\* C6: with a CIDR of length <= kMaxCidrLenForValidAddrPool the number of active
\* mappings plus the number of pool addresses is the number of addresses SetIp4Cidr
\* put in the pool, and each of those addresses is either in the pool or held by
\* an active mapping.
C6_AddressConservation ==
    LargeCidr =>
        /\ Len(mActiveAddressMappings) + Len(mIp4AddressPool) = Cardinality(HostAddresses)
        /\ Range(mIp4AddressPool) \cup {m.mIp4 : m \in ActiveMappings} = HostAddresses

\* Every address has been taken and returned: the pool is full again, in another order.
C6_Witness ==
    /\ LargeCidr
    /\ mIp4Cidr.mLength > 0
    /\ mActiveAddressMappings = << >>
    /\ mIp4AddressPool # CidrAddressPool(mIp4Cidr)

\* C7: with a CIDR of length <= kMaxCidrLenForValidAddrPool no two active mappings
\* hold the same ip4 and no active mapping's ip4 is in the pool; with a longer
\* CIDR every active mapping's ip4 is the first pool address and the pool is as
\* SetIp4Cidr built it.
C7_AddressAssignment ==
    IF LargeCidr
    THEN /\ \A p \in ActivePairs : ActiveAt(p[1]).mIp4 # ActiveAt(p[2]).mIp4
         /\ \A m \in ActiveMappings : m.mIp4 \notin Range(mIp4AddressPool)
    ELSE /\ \A m \in ActiveMappings : m.mIp4 = mIp4AddressPool[1]
         /\ mIp4AddressPool = CidrAddressPool(mIp4Cidr)

\* Two active mappings hold the first address of a pool that is still whole.
C7_Witness ==
    /\ ~LargeCidr
    /\ mIp4AddressPool = CidrAddressPool(mIp4Cidr)
    /\ \E p \in ActivePairs :
           /\ ActiveAt(p[1]).mIp4 = mIp4AddressPool[1]
           /\ ActiveAt(p[2]).mIp4 = mIp4AddressPool[1]

\* C8 as stated: the id of a newly created mapping is greater than the id of every
\* mapping created before it.
C8_IdsIncrease ==
    [][mNextMappingId' # mNextMappingId =>
          mAddressMappingPool'.mPool[Head(mActiveAddressMappings')].mId > maxCreatedId]_vars

\* The reply to a datagram TranslateFromIp6 sent from (aAddress, aPort).
Reply(aAddress, aPort, aProto) ==
    [isIp6 |-> FALSE, parseOk |-> TRUE, dst |-> aAddress, dstPortOrId |-> aPort,
     proto |-> aProto, icmpType |-> kIcmp4TypeEchoReply, prependOk |-> TRUE]

\* C9 as stated: when TranslateFromIp6 forwards a UDP/TCP datagram from (S, P) with
\* IPv4 source (A, Q), TranslateToIp6 forwards a well-formed UDP/TCP datagram
\* addressed to (A, Q) to destination S and port P, whatever other mappings exist.
C9_RoundTrip ==
    \A h \in Ip6Packets, aRandom \in PortCandidates :
        LET r == TranslateFromIp6Result(State, h, aRandom)
        IN  (h.proto \in {kProtoUdp, kProtoTcp} /\ r.res = kForward /\ ~r.retry) =>
                \A aProto \in {kProtoUdp, kProtoTcp} :
                    LET back == TranslateToIp6Result(r.st,
                                    Reply(r.out.src, r.out.srcPort, aProto))
                    IN  /\ back.res = kForward
                        /\ back.out.dst = h.src
                        /\ back.out.dstPort = h.srcPortOrId

\* C10 as stated: when SetEnabled(false) returns the active mapping list is empty
\* and, with a CIDR of length <= kMaxCidrLenForValidAddrPool, every address is
\* back in the pool.
C10_DisabledHasNoMappings ==
    LET r == SetEnabledResult(State, FALSE)
    IN  /\ r.st.t.active = << >>
        /\ LargeCidr => Range(r.st.t.pool) = HostAddresses

\* CIDRs a caller can pass to SetIp4Cidr: 10.0.0.0 and 100.64.0.77 with every
\* length from 0 to 33.
CidrArguments ==
    [mAddress : {CidrBase, 100 * Pow2(24) + 64 * Pow2(16) + 77}, mLength : 0 .. 33]

\* Every slot of the mapping pool is on the free list.
AllSlotsFree(aPool) ==
    /\ Len(aPool.mFreeList) = kAddressMappingPoolSize
    /\ Range(aPool.mFreeList) = Slots

\* The host ids of a CIDR length: 0 for /32, 0 and 1 for /31, otherwise 1, 2, ... up
\* to min(2^(32-L) - 2, kAddressMappingPoolSize) of them.
ExpectedHostIds(aLength) ==
    IF aLength = 32 THEN {0}
    ELSE IF aLength = 31 THEN {0, 1}
    ELSE 1 .. Min((Pow2(31 - aLength) - 1) * 2, kAddressMappingPoolSize)

\* The addresses of those host ids in the network of aCidr.
ExpectedHostAddresses(aCidr) ==
    {(aCidr.mAddress - HostPart(aCidr.mAddress, aCidr.mLength)) + i :
        i \in ExpectedHostIds(aCidr.mLength)}

\* C11 as stated: every SetIp4Cidr call with a length in [1,32], the configured CIDR
\* included, leaves the active list empty, every slot free and the address pool
\* holding the host addresses of the given CIDR, and signals StateChanged.
C11_SetIp4CidrAlwaysFlushes ==
    \A c \in CidrArguments :
        (c.mLength >= 1 /\ c.mLength <= 32) =>
            LET r == SetIp4CidrResult(State, c)
            IN  /\ r.st.t.active = << >>
                /\ AllSlotsFree(r.st.t.amp)
                /\ Range(r.st.t.pool) = ExpectedHostAddresses(c)
                /\ r.signals >= 1

\* C11 as amended: a SetIp4Cidr call with a length in [1,32] and a CIDR other than
\* the configured one leaves the active list empty, every slot free and the address
\* pool holding the host addresses of the given CIDR, and signals StateChanged; a
\* call that passes the configured CIDR returns without error, changes nothing and
\* signals nothing.
C11_SetIp4CidrFlushesOnNewCidr ==
    \A c \in CidrArguments :
        (c.mLength >= 1 /\ c.mLength <= 32) =>
            LET r == SetIp4CidrResult(State, c)
            IN  IF c # mIp4Cidr
                THEN /\ r.error = "None"
                     /\ r.st.mIp4Cidr = c
                     /\ r.st.t.active = << >>
                     /\ AllSlotsFree(r.st.t.amp)
                     /\ Range(r.st.t.pool) = ExpectedHostAddresses(c)
                     /\ r.signals >= 1
                ELSE /\ r.error = "None"
                     /\ r.st = State
                     /\ r.signals = 0

\* A CIDR is configured and mappings are active: a SetIp4Cidr call with another CIDR
\* flushes them, one with the same CIDR keeps them.
C11_Witness ==
    /\ mActiveAddressMappings # << >>
    /\ Len(mIp4AddressPool) < Cardinality(HostAddresses)
    /\ \E c \in CidrArguments :
           /\ c.mLength = 31
           /\ c # mIp4Cidr
           /\ SetIp4CidrResult(State, c).st.t.active = << >>
    /\ SetIp4CidrResult(State, mIp4Cidr).st.t.active = mActiveAddressMappings

\* C12: SetIp4Cidr with length 0 or length > 32 returns InvalidArgs, leaves the
\* CIDR, the address pool, the mapping pool, the active mappings and the state as
\* they were and signals nothing.
C12_InvalidCidrRejected ==
    \A c \in CidrArguments :
        (c.mLength = 0 \/ c.mLength > 32) =>
            LET r == SetIp4CidrResult(State, c)
            IN  /\ r.error = "InvalidArgs"
                /\ r.st = State
                /\ r.signals = 0

\* A translator with a CIDR and an active mapping is handed a CIDR of length 0 and
\* one of length 33.
C12_Witness ==
    /\ mIp4Cidr.mLength > 0
    /\ mActiveAddressMappings # << >>
    /\ mState = kStateActive
    /\ \A l \in {0, 33} :
           SetIp4CidrResult(State, [mAddress |-> CidrBase, mLength |-> l]).error
               = "InvalidArgs"

\* C13: after a successful SetIp4Cidr with a new CIDR of length L the address pool
\* holds host id 0 for L = 32, host ids 0 and 1 for L = 31, otherwise the host ids
\* 1, 2, ... up to min(2^(32-L) - 2, kAddressMappingPoolSize) addresses, each once,
\* and for L < 31 never the all-zeros or the all-ones host id; for every L in [1,32].
C13_PoolHoldsHostAddresses ==
    \A c \in CidrArguments :
        (c.mLength >= 1 /\ c.mLength <= 32 /\ c # mIp4Cidr) =>
            LET pool == SetIp4CidrResult(State, c).st.t.pool
                allOnes == (Pow2(31 - c.mLength) - 1) * 2 + 1
            IN  /\ Range(pool) = ExpectedHostAddresses(c)
                /\ Len(pool) = Cardinality(ExpectedHostIds(c.mLength))
                /\ \A i \in 1 .. Len(pool) : pool[i] = pool[1] + (i - 1)
                /\ c.mLength < 31 =>
                       \A i \in 1 .. Len(pool) :
                           /\ HostPart(pool[i], c.mLength) # 0
                           /\ HostPart(pool[i], c.mLength) # allOnes

\* SetIp4Cidr has built the pool of 10.0.0.0/29, host ids 1 and 2, and a call with
\* 100.64.0.77/1 would build the pool 0.0.0.1, 0.0.0.2.
C13_Witness ==
    /\ mIp4Cidr = [mAddress |-> CidrBase, mLength |-> 29]
    /\ mIp4AddressPool = <<CidrBase + 1, CidrBase + 2>>
    /\ SetIp4CidrResult(State, [mAddress |-> 100 * Pow2(24) + 64 * Pow2(16) + 77,
                                mLength |-> 1]).st.t.pool
           = <<1, 2>>

\* Prefix lengths a caller can pass to SetNat64Prefix.
PrefixArguments == 0 .. 128

\* C14 as stated: SetNat64Prefix with a length outside {32,40,48,56,64,96} leaves the
\* prefix unset, as ClearNat64Prefix does, and GetIp6Prefix then returns NotFound;
\* a prefix with a length in the set is stored and returned by GetIp6Prefix.
C14_InvalidPrefixClears ==
    \A l \in PrefixArguments :
        LET after == SetNat64PrefixResult(State, l).st
        IN  IF l \in {32, 40, 48, 56, 64, 96}
            THEN GetIp6Prefix(after) = [error |-> "None", prefix |-> l]
            ELSE /\ after = ClearNat64PrefixResult(State).st
                 /\ GetIp6Prefix(after).error = "NotFound"

\* C15: after ClearIp4Cidr the CIDR is unset and GetIp4Cidr returns NotFound, the
\* active list is empty, every slot is free, the address pool is empty, and the
\* state is NotRunning if enabled and Disabled otherwise.
C15_ClearIp4CidrResets ==
    LET after == ClearIp4CidrResult(State).st
    IN  /\ after.mIp4Cidr.mLength = 0
        /\ GetIp4Cidr(after).error = "NotFound"
        /\ after.t.active = << >>
        /\ AllSlotsFree(after.t.amp)
        /\ after.t.pool = << >>
        /\ after.mState = IF after.mEnabled THEN kStateNotRunning ELSE kStateDisabled
        /\ after.mEnabled = mEnabled

\* ClearIp4Cidr is called on an active translator that holds a mapping.
C15_Witness ==
    /\ mState = kStateActive
    /\ mActiveAddressMappings # << >>
    /\ GetIp4Cidr(State).error = "None"
    /\ ClearIp4CidrResult(State).st.mState = kStateNotRunning

\* C16: TranslateFromIp6 returns NotTranslated, and changes nothing, for every
\* datagram when the CIDR length is 0 or the NAT64 prefix is not one of the valid
\* lengths, and for every well-formed datagram whose destination is not under the
\* NAT64 prefix.
C16_NotTranslatedWhenNotConfigured ==
    \A h \in Ip6Packets, aRandom \in PortCandidates :
        LET r == TranslateFromIp6Result(State, h, aRandom)
            notConfigured == \/ mIp4Cidr.mLength = 0
                             \/ mNat64Prefix \notin {32, 40, 48, 56, 64, 96}
        IN  (notConfigured \/ (h.parseOk /\ h.dstMatchLen < mNat64Prefix)) =>
                /\ r.res = kNotTranslated
                /\ r.st = State

\* A CIDR is set and the prefix is not a NAT64 prefix: a malformed datagram and an
\* SCTP datagram are both NotTranslated.
C16_Witness ==
    /\ mIp4Cidr.mLength > 0
    /\ mNat64Prefix = 72
    /\ \E h \in Ip6Packets :
           /\ ~h.parseOk
           /\ TranslateFromIp6Result(State, h, kTranslationPortRangeStart).res = kNotTranslated
    /\ \E h \in Ip6Packets :
           /\ h.parseOk /\ h.proto = kProtoSctp
           /\ TranslateFromIp6Result(State, h, kTranslationPortRangeStart).res = kNotTranslated

\* C17: for a message that does not parse as IPv6, TranslateToIp6 returns Forward
\* when no CIDR is set, whatever the prefix, and Drop when a CIDR is set and the
\* prefix is not a NAT64 prefix; in both cases no mapping is looked up or touched.
C17_NoCidrForwardsNoPrefixDrops ==
    \A h \in Ip4Packets :
        ~h.isIp6 =>
            LET r == TranslateToIp6Result(State, h)
            IN  /\ mIp4Cidr.mLength = 0 =>
                       r.res = kForward /\ r.mapping = kNull /\ r.st = State
                /\ (mIp4Cidr.mLength > 0 /\ mNat64Prefix \notin {32, 40, 48, 56, 64, 96}) =>
                       r.res = kDrop /\ r.mapping = kNull /\ r.st = State

\* A mapping is active and the prefix has been replaced by one that is not a NAT64
\* prefix: a datagram for the mapping is dropped and the mapping is not touched.
C17_Witness ==
    /\ mIp4Cidr.mLength > 0
    /\ mNat64Prefix = 72
    /\ \E s \in Range(mActiveAddressMappings), h \in Ip4Packets :
           /\ h.parseOk /\ ~h.isIp6
           /\ h.dst = mAddressMappingPool.mPool[s].mIp4
           /\ mAddressMappingPool.mPool[s].mExpiry < now + kAddressMappingIcmpIdleTimeoutMsec
           /\ TranslateToIp6Result(State, h).res = kDrop

\* Error counters in which exactly one count, aReason in direction aDirection, is 1.
OneCount(aDirection, aReason) ==
    [d \in {"mCount4To6", "mCount6To4"} |->
        [r \in Reasons |-> IF d = aDirection /\ r = aReason THEN 1 ELSE 0]]

\* The cause of a Drop by TranslateFromIp6.
Cause6To4(aIp6Headers, aResult) ==
    IF ~aIp6Headers.parseOk THEN "IllegalPacket"
    ELSE IF aResult.mapping = kNull THEN "NoMapping"
    ELSE IF aIp6Headers.proto \notin {kProtoUdp, kProtoTcp, kProtoIcmp6} THEN "UnsupportedProto"
    ELSE "Unknown"

\* The cause of a Drop by TranslateToIp6.
Cause4To6(aIp4Headers, aResult) ==
    IF mNat64Prefix \notin {32, 40, 48, 56, 64, 96} THEN "Unknown"
    ELSE IF ~aIp4Headers.parseOk THEN "IllegalPacket"
    ELSE IF aResult.mapping = kNull THEN "NoMapping"
    ELSE IF aIp4Headers.proto \notin {kProtoUdp, kProtoTcp, kProtoIcmp} THEN "UnsupportedProto"
    ELSE "Unknown"

\* C18: a translation call that returns Drop adds one to exactly one error counter,
\* the one of its direction and of the cause of the drop (IllegalPacket for a parse
\* failure, NoMapping for no mapping, UnsupportedProto for a protocol other than
\* UDP, TCP and ICMP, Unknown otherwise); a call that returns Forward or
\* NotTranslated changes no error counter.
C18_DropCountsOneReason ==
    /\ \A h \in Ip6Packets, aRandom \in PortCandidates :
           LET r == TranslateFromIp6Result(State, h, aRandom)
               counted == TranslateFromIp6Exit(ClearedErrorCounters, r.res, r.reason)
           IN  counted = IF r.res = kDrop
                         THEN OneCount("mCount6To4", Cause6To4(h, r))
                         ELSE ClearedErrorCounters
    /\ \A h \in Ip4Packets :
           LET r == TranslateToIp6Result(State, h)
               counted == TranslateToIp6Exit(ClearedErrorCounters, r.res, r.reason)
           IN  counted = IF r.res = kDrop
                         THEN OneCount("mCount4To6", Cause4To6(h, r))
                         ELSE ClearedErrorCounters

\* The mapping pool is full: one outgoing datagram is dropped for NoMapping and an
\* SCTP one for UnsupportedProto, and an incoming one without headroom for Unknown.
C18_Witness ==
    /\ mAddressMappingPool.mFreeList = << >>
    /\ \E h \in Ip6Packets :
           LET r == TranslateFromIp6Result(State, h, kTranslationPortRangeStart)
           IN  r.res = kDrop /\ r.reason = "NoMapping"
    /\ \E h \in Ip6Packets :
           LET r == TranslateFromIp6Result(State, h, kTranslationPortRangeStart)
           IN  r.res = kDrop /\ r.reason = "UnsupportedProto"
    /\ \E h \in Ip4Packets :
           LET r == TranslateToIp6Result(State, h)
           IN  r.res = kDrop /\ r.reason = "Unknown" /\ r.mapping # kNull

\* A CIDR and a NAT64 prefix are configured.
Configured == mIp4Cidr.mLength > 0 /\ mNat64Prefix \in {32, 40, 48, 56, 64, 96}

\* Every mapping slot or, with a CIDR of length <= kMaxCidrLenForValidAddrPool, every
\* pool address is held by a mapping.
Exhausted ==
    \/ mAddressMappingPool.mFreeList = << >>
    \/ (LargeCidr /\ mIp4AddressPool = << >>)

\* A well-formed datagram for the NAT64 prefix whose outbound key no active mapping has.
NewFlow(aIp6Headers) ==
    /\ aIp6Headers.parseOk
    /\ aIp6Headers.dstMatchLen >= mNat64Prefix
    /\ \A m \in ActiveMappings :
           IF portTranslationEnable
           THEN ~(m.mIp6 = aIp6Headers.src /\ m.mSrcPortOrId = aIp6Headers.srcPortOrId)
           ELSE m.mIp6 # aIp6Headers.src

\* The datagram is one TranslateFromIp6 translates: UDP, TCP or an ICMPv6 echo request.
Translatable(aIp6Headers) ==
    \/ aIp6Headers.proto \in {kProtoUdp, kProtoTcp}
    \/ (aIp6Headers.proto = kProtoIcmp6 /\ aIp6Headers.icmpType = kIcmp6TypeEchoRequest)

\* C19: when every slot (or, with a large CIDR, every pool address) is held by a
\* mapping that has not expired, TranslateFromIp6 of a new flow returns Drop with
\* NoMapping and creates nothing; when the mappings have all expired and the expiry
\* timer has fired, TranslateFromIp6 of that flow returns Forward with a new mapping.
C19_ExhaustionAndRecovery ==
    \A h \in Ip6Packets, aRandom \in PortCandidates :
        (Configured /\ Exhausted /\ NewFlow(h)) =>
            /\ (\A m \in ActiveMappings : m.mExpiry >= now) =>
                   LET r == TranslateFromIp6Result(State, h, aRandom)
                   IN  /\ r.res = kDrop
                       /\ r.reason = "NoMapping"
                       /\ ~r.created
                       /\ r.st = State
            /\ ((\A m \in ActiveMappings : m.mExpiry < now)
                    /\ now >= mMappingExpirerTimer /\ Translatable(h)) =>
                   LET fired == HandleMappingExpirerTimerResult(State).st
                       r     == TranslateFromIp6Result(fired, h, aRandom)
                   IN  /\ r.res = kForward
                       /\ r.created
                       /\ r.mapping # kNull
                       /\ r.st.t.active = <<r.mapping>>
                       /\ r.st.t.amp.mPool[r.mapping].mIp6 = h.src

\* Every slot is held by an expired mapping and the timer is due: before it fires a
\* new flow is dropped, after it fires the flow gets a mapping.
C19_Witness ==
    /\ Configured
    /\ mAddressMappingPool.mFreeList = << >>
    /\ \A m \in ActiveMappings : m.mExpiry < now
    /\ now >= mMappingExpirerTimer
    /\ \E h \in Ip6Packets :
           /\ NewFlow(h) /\ Translatable(h)
           /\ TranslateFromIp6Result(State, h, kTranslationPortRangeStart).res = kDrop
           /\ TranslateFromIp6Result(HandleMappingExpirerTimerResult(State).st, h,
                                     kTranslationPortRangeStart).res = kForward

\* C20 as stated: a mapping whose expiry is in the past and that no sweep has removed
\* is still the mapping FindOrAllocateMapping and FindMapping find: a datagram that
\* matches its outbound key, and a datagram that matches its inbound key, is
\* translated with that mapping (same id, ip4 and translated port), not a new one.
C20_ExpiredMappingStillUsed ==
    \A s \in Range(mActiveAddressMappings) :
        LET m == mAddressMappingPool.mPool[s]
        IN  (Configured /\ m.mExpiry < now) =>
                /\ \A h \in Ip6Packets, aRandom \in PortCandidates :
                       (/\ h.parseOk /\ h.dstMatchLen >= mNat64Prefix
                        /\ h.src = m.mIp6
                        /\ portTranslationEnable => h.srcPortOrId = m.mSrcPortOrId) =>
                           LET r == TranslateFromIp6Result(State, h, aRandom)
                           IN  /\ r.mapping = s
                               /\ ~r.created
                               /\ r.st.t.active = mActiveAddressMappings
                               /\ r.st.t.amp.mPool[s].mId = m.mId
                               /\ r.st.t.amp.mPool[s].mIp4 = m.mIp4
                               /\ r.st.t.amp.mPool[s].mTranslatedPortOrId = m.mTranslatedPortOrId
                /\ \A h \in Ip4Packets :
                       (/\ h.parseOk /\ ~h.isIp6
                        /\ h.dst = m.mIp4
                        /\ portTranslationEnable => h.dstPortOrId = m.mTranslatedPortOrId) =>
                           LET r == TranslateToIp6Result(State, h)
                           IN  /\ r.mapping = s
                               /\ r.st.t.active = mActiveAddressMappings
                               /\ r.st.t.amp.mPool[s].mId = m.mId
                               /\ r.st.t.amp.mPool[s].mIp4 = m.mIp4
                               /\ r.st.t.amp.mPool[s].mTranslatedPortOrId = m.mTranslatedPortOrId

\* C21: with the mapping table left alone, InitAddressMappingIterator followed by
\* GetNextAddressMapping until NotFound returns the active mappings, each once, the
\* expired ones included, and the call after the last one returns NotFound; every
\* record has mRemainingTimeMs = mExpiry - now if mExpiry >= now and 0 otherwise,
\* never a negative (wrapped-around) value.
C21_IteratorReportsEveryMapping ==
    LET records == Iterate(State, InitAddressMappingIterator(State),
                           kAddressMappingPoolSize + 1)
    IN  /\ Len(records) = Len(mActiveAddressMappings)
        /\ \A i \in 1 .. Len(records) :
               /\ records[i].mId = ActiveAt(i).mId
               /\ records[i].mIp6 = ActiveAt(i).mIp6
               /\ records[i].mIp4 = ActiveAt(i).mIp4
               /\ records[i].mSrcPortOrId = ActiveAt(i).mSrcPortOrId
               /\ records[i].mTranslatedPortOrId = ActiveAt(i).mTranslatedPortOrId
               /\ records[i].mRemainingTimeMs = Max(0, ActiveAt(i).mExpiry - now)
               /\ records[i].mRemainingTimeMs >= 0
        /\ \A s \in Range(mActiveAddressMappings) :
               GetNext(mActiveAddressMappings, s) = kNull
                   => GetNextAddressMapping(State, GetNext(mActiveAddressMappings, s)).error
                          = "NotFound"
        /\ mActiveAddressMappings = << >>
               => GetNextAddressMapping(State, InitAddressMappingIterator(State)).error
                      = "NotFound"

\* The table holds an expired mapping and one that has time left: the iterator
\* reports both.
C21_Witness ==
    /\ Len(mActiveAddressMappings) = 2
    /\ \E i, j \in 1 .. 2 : ActiveAt(i).mExpiry < now /\ ActiveAt(j).mExpiry > now
    /\ Len(Iterate(State, InitAddressMappingIterator(State), kAddressMappingPoolSize + 1)) = 2

\* The idle timeout Touch applies for a protocol.
IdleTimeout(aProtocol) ==
    IF aProtocol \in {kProtoIcmp6, kProtoIcmp}
    THEN kAddressMappingIcmpIdleTimeoutMsec
    ELSE kAddressMappingIdleTimeoutMsec

\* C22 as stated: every translation that returns Forward using a mapping, in either
\* direction, touches the mapping: on return its expiry is now + T_icmp for an ICMP
\* datagram and now + T_udp_tcp otherwise; so an outgoing datagram of an expired
\* mapping that no sweep has removed extends the life of the mapping.
C22_ForwardTouchesMapping ==
    /\ \A h \in Ip6Packets, aRandom \in PortCandidates :
           LET r == TranslateFromIp6Result(State, h, aRandom)
           IN  (r.res = kForward /\ r.mapping # kNull /\ ~r.retry) =>
                   r.st.t.amp.mPool[r.mapping].mExpiry = now + IdleTimeout(h.proto)
    /\ \A h \in Ip4Packets :
           LET r == TranslateToIp6Result(State, h)
           IN  (r.res = kForward /\ r.mapping # kNull) =>
                   r.st.t.amp.mPool[r.mapping].mExpiry = now + IdleTimeout(h.proto)

\* C23 as stated: the expiry of an active mapping never decreases: a translation
\* that uses a mapping already on the active list leaves it with an expiry >= the
\* expiry it had, whatever the protocol of the datagram.
C23_ExpiryNeverDecreases ==
    /\ \A h \in Ip6Packets, aRandom \in PortCandidates :
           LET r == TranslateFromIp6Result(State, h, aRandom)
           IN  (r.mapping # kNull /\ ~r.created) =>
                   r.st.t.amp.mPool[r.mapping].mExpiry
                       >= mAddressMappingPool.mPool[r.mapping].mExpiry
    /\ \A h \in Ip4Packets :
           LET r == TranslateToIp6Result(State, h)
           IN  r.mapping # kNull =>
                   r.st.t.amp.mPool[r.mapping].mExpiry
                       >= mAddressMappingPool.mPool[r.mapping].mExpiry

\* C24 as stated: when TranslateFromIp6 returns Drop with NoMapping, no mapping on
\* the active list has expiry < now: an expired mapping would have been reclaimed
\* for the new flow, with a CIDR of any length.
C24_NoMappingOnlyAfterSweep ==
    \A h \in Ip6Packets, aRandom \in PortCandidates :
        LET r == TranslateFromIp6Result(State, h, aRandom)
        IN  (r.res = kDrop /\ r.reason = "NoMapping") =>
                \A s \in Range(r.st.t.active) : r.st.t.amp.mPool[s].mExpiry >= now

\* The slots Pool::Allocate has handed out and Pool::Free has not taken back.
AllocatedSlots(aPool) == Slots \ Range(aPool.mFreeList)

\* No slot is twice in the sequence.
IsDuplicateFree(aSeq) == \A i, j \in 1 .. Len(aSeq) : aSeq[i] = aSeq[j] => i = j

\* C25: in every reachable state the allocated slots of mAddressMappingPool are the
\* slots on the active list: every active mapping has an allocated slot, no
\* allocated slot is off the list, and the list has at most kAddressMappingPoolSize
\* mappings; the sweep, SetEnabled(false), SetIp4Cidr and ClearIp4Cidr free the
\* slot of every mapping they take off the list.
C25_AllocatedSlotsAreActive ==
    /\ AllocatedSlots(mAddressMappingPool) = Range(mActiveAddressMappings)
    /\ IsDuplicateFree(mActiveAddressMappings)
    /\ IsDuplicateFree(mAddressMappingPool.mFreeList)
    /\ Len(mActiveAddressMappings) <= kAddressMappingPoolSize
    /\ \A r \in {HandleMappingExpirerTimerResult(State).st,
                 SetEnabledResult(State, FALSE).st,
                 ClearIp4CidrResult(State).st}
              \cup {SetIp4CidrResult(State, aCidr).st : aCidr \in Ip4Cidrs} :
           /\ AllocatedSlots(r.t.amp) = Range(r.t.active)
           /\ Range(mActiveAddressMappings) \ Range(r.t.active)
                  \subseteq Range(r.t.amp.mFreeList)

\* A sweep has taken one of two mappings off the list and freed its slot.
C25_Witness ==
    /\ mActiveAddressMappings = <<1>>
    /\ mAddressMappingPool.mFreeList = <<2>>

\* C26: ReleaseExpiredMappings takes off the active list exactly the mappings with
\* expiry < now and releases each (its slot is freed and, with a CIDR of length
\* <= kMaxCidrLenForValidAddrPool, its ip4 goes back to the address pool), returns
\* their number, and leaves the mappings with expiry >= now on the list, in their
\* order, with every field as it was.
C26_SweepRemovesExactlyExpired ==
    LET r       == ReleaseExpiredMappings(State.t, now, mIp4Cidr.mLength)
        expired == {s \in Range(mActiveAddressMappings) :
                        mAddressMappingPool.mPool[s].mExpiry < now}
        isKept(s) == s \notin expired
    IN  /\ r.t.active = SelectSeq(mActiveAddressMappings, isKept)
        /\ Range(r.t.active) = Range(mActiveAddressMappings) \ expired
        /\ r.n = Cardinality(expired)
        /\ \A s \in Range(r.t.active) : r.t.amp.mPool[s] = mAddressMappingPool.mPool[s]
        /\ Range(r.t.amp.mFreeList) = Range(mAddressMappingPool.mFreeList) \cup expired
        /\ Len(r.t.amp.mFreeList) = Len(mAddressMappingPool.mFreeList) + Cardinality(expired)
        /\ IF LargeCidr
           THEN /\ Range(r.t.pool) = Range(mIp4AddressPool)
                       \cup {mAddressMappingPool.mPool[s].mIp4 : s \in expired}
                /\ Len(r.t.pool) = Len(mIp4AddressPool) + Cardinality(expired)
           ELSE r.t.pool = mIp4AddressPool

\* One mapping has expired, one expires now and stays: the sweep releases the first.
C26_Witness ==
    /\ LargeCidr
    /\ \E s1, s2 \in Range(mActiveAddressMappings) :
           /\ mAddressMappingPool.mPool[s1].mExpiry < now
           /\ mAddressMappingPool.mPool[s2].mExpiry = now
    /\ ReleaseExpiredMappings(State.t, now, mIp4Cidr.mLength).n = 1

\* ICMPv6 and ICMPv4 types of the datagrams: echo request, echo reply and
\* destination unreachable.
Icmp6Types == {kIcmp6TypeEchoRequest, kIcmp6TypeEchoReply, 1}

Icmp4Types == {kIcmp4TypeEchoRequest, kIcmp4TypeEchoReply, 3}

\* The ICMP datagrams of every type, outgoing and incoming.
Icmp6Packets ==
    {[h EXCEPT !.icmpType = t] : h \in {p \in Ip6Packets : p.proto = kProtoIcmp6},
                                 t \in Icmp6Types}

Icmp4Packets ==
    {[h EXCEPT !.icmpType = t] : h \in {p \in Ip4Packets : p.proto = kProtoIcmp},
                                 t \in Icmp4Types}

\* C27 as stated: echo request and echo reply are each translated in both
\* directions (ICMPv6 128 <-> ICMPv4 8, ICMPv6 129 <-> ICMPv4 0) with the identifier
\* overwritten by the supplied id, and the call returns Forward; a datagram of any
\* other ICMP type is dropped.
C27_EchoTranslatedBothWays ==
    /\ \A h \in Icmp6Packets, aRandom \in PortCandidates :
           LET r == TranslateFromIp6Result(State, h, aRandom)
           IN  (r.mapping # kNull /\ ~r.retry) =>
                   IF h.icmpType \in {kIcmp6TypeEchoRequest, kIcmp6TypeEchoReply}
                   THEN r.res = kForward
                   ELSE r.res = kDrop
    /\ \A h \in Icmp4Packets :
           LET r == TranslateToIp6Result(State, h)
           IN  (r.mapping # kNull /\ h.prependOk) =>
                   IF h.icmpType \in {kIcmp4TypeEchoRequest, kIcmp4TypeEchoReply}
                   THEN r.res = kForward
                   ELSE r.res = kDrop

\* C27, amended: TranslateFromIp6 translates an ICMPv6 echo request (128) into an
\* ICMPv4 echo request (8) and TranslateToIp6 an ICMPv4 echo reply (0) into an
\* ICMPv6 echo reply (129), each with the identifier overwritten by the supplied
\* id, and returns Forward; an ICMP datagram of any other type, the ICMPv6 echo
\* reply going out and the ICMPv4 echo request coming in included, is dropped with
\* its header as it was.
C27_EchoTranslatedOneWay ==
    /\ \A h \in Icmp6Packets, aRandom \in PortCandidates :
           LET r == TranslateFromIp6Result(State, h, aRandom)
               aTranslatedId == IF portTranslationEnable
                                THEN r.st.t.amp.mPool[r.mapping].mTranslatedPortOrId
                                ELSE h.srcPortOrId
               icmp == TranslateIcmp6Header([mType |-> h.icmpType, mId |-> h.srcPortOrId],
                                            aTranslatedId)
           IN  (r.mapping # kNull /\ ~r.retry) =>
                   IF h.icmpType = kIcmp6TypeEchoRequest
                   THEN /\ r.res = kForward
                        /\ icmp.err = "None"
                        /\ icmp.header = [mType |-> kIcmp4TypeEchoRequest,
                                          mId |-> r.out.srcPort]
                   ELSE /\ r.res = kDrop
                        /\ r.reason = "Unknown"
                        /\ icmp.err = "InvalidArgs"
                        /\ icmp.header = [mType |-> h.icmpType, mId |-> h.srcPortOrId]
    /\ \A h \in Icmp4Packets :
           LET r == TranslateToIp6Result(State, h)
               aOriginalId == IF portTranslationEnable
                              THEN r.st.t.amp.mPool[r.mapping].mSrcPortOrId
                              ELSE h.dstPortOrId
               icmp == TranslateIcmp4Header([mType |-> h.icmpType, mId |-> h.dstPortOrId],
                                            aOriginalId)
           IN  (r.mapping # kNull /\ h.prependOk) =>
                   IF h.icmpType = kIcmp4TypeEchoReply
                   THEN /\ r.res = kForward
                        /\ icmp.err = "None"
                        /\ icmp.header = [mType |-> kIcmp6TypeEchoReply,
                                          mId |-> r.out.dstPort]
                   ELSE /\ r.res = kDrop
                        /\ r.reason = "Unknown"
                        /\ icmp.err = "InvalidArgs"
                        /\ icmp.header = [mType |-> h.icmpType, mId |-> h.dstPortOrId]

\* A mapping exists: the echo request of its host goes out, the echo reply comes
\* back, and the echo reply of the host and the echo request from outside are dropped.
C27_Witness ==
    /\ mActiveAddressMappings # << >>
    /\ \E h \in Icmp6Packets :
           LET r == TranslateFromIp6Result(State, h, kTranslationPortRangeStart)
           IN  h.icmpType = kIcmp6TypeEchoRequest /\ r.res = kForward /\ ~r.created
    /\ \E h \in Icmp6Packets :
           LET r == TranslateFromIp6Result(State, h, kTranslationPortRangeStart)
           IN  h.icmpType = kIcmp6TypeEchoReply /\ r.res = kDrop /\ r.mapping # kNull
    /\ \E h \in Icmp4Packets :
           LET r == TranslateToIp6Result(State, h)
           IN  h.icmpType = kIcmp4TypeEchoReply /\ r.res = kForward
    /\ \E h \in Icmp4Packets :
           LET r == TranslateToIp6Result(State, h)
           IN  h.icmpType = kIcmp4TypeEchoRequest /\ r.res = kDrop /\ r.mapping # kNull

\* The period every arming of the expiry timer uses according to C28.
ExpirerPeriod == Min(kAddressMappingIcmpIdleTimeoutMsec, kAddressMappingIdleTimeoutMsec)

\* C28 as stated: the expiry timer is armed in every reachable state, whatever the
\* enabled flag and the configuration, and every arming, at construction and at
\* each fire, uses the period min(T_icmp, T_udp_tcp): the fire time is the time of
\* an arming, not after now, plus that period; each fire runs one
\* ReleaseExpiredMappings and arms the timer again.
C28_TimerArmedWithMinPeriod ==
    /\ mMappingExpirerTimer - ExpirerPeriod \in 0 .. now
    /\ LET fired == HandleMappingExpirerTimerResult(State)
       IN  /\ fired.st.mMappingExpirerTimer = now + ExpirerPeriod
           /\ fired.st.t = ReleaseExpiredMappings(State.t, now, mIp4Cidr.mLength).t

\* Sampling range of AllocateSourcePort cut down to its first ports, more of each
\* parity than there are mapping slots, and its last port.
PortSamples ==
    {kTranslationPortRangeStart + i : i \in 0 .. 2 * kAddressMappingPoolSize + 1}
        \cup {kTranslationPortRangeEnd}

\* Values the mTranslatedPortOrId of a slot just allocated can hold: a port an
\* earlier mapping of the slot had, or anything else.
StalePorts ==
    {kIndeterminate} \cup {AllocateSourcePortSample(sp, p) : sp \in SrcPorts, p \in PortSamples}

\* C29: whenever AllocateSourcePort is called, a port of the sampling range with the
\* parity of the original port is the translatedPortOrId of no mapping on the
\* active list, the new mapping with the value its slot still holds included, so
\* the loop has a sample it accepts; and the port it returns is the
\* translatedPortOrId of no other active mapping.
C29_FreePortExists ==
    portTranslationEnable =>
        \A h \in Ip6Packets :
            LET first == TranslateFromIp6Result(State, h, kTranslationPortRangeStart)
                others == {first.st.t.amp.mPool[s].mTranslatedPortOrId :
                               s \in Range(first.st.t.active) \ {first.mapping}}
            IN  first.created =>
                    /\ \A stale \in StalePorts :
                           \E p \in PortSamples :
                               LET retPort == AllocateSourcePortSample(h.srcPortOrId, p)
                               IN  /\ retPort \in kTranslationPortRangeStart ..
                                                  kTranslationPortRangeEnd
                                   /\ retPort % 2 = h.srcPortOrId % 2
                                   /\ retPort \notin others
                                   /\ retPort # stale
                    /\ \E aRandom \in PortCandidates :
                           ~TranslateFromIp6Result(State, h, aRandom).retry
                    /\ \A aRandom \in PortCandidates :
                           LET r == TranslateFromIp6Result(State, h, aRandom)
                           IN  ~r.retry =>
                                   r.st.t.amp.mPool[r.mapping].mTranslatedPortOrId
                                       \notin others

\* A mapping holds the port of the first sample: for a new flow of the same parity
\* the loop rejects that sample and accepts another.
C29_Witness ==
    /\ portTranslationEnable
    /\ \E h \in Ip6Packets :
           /\ TranslateFromIp6Result(State, h, kTranslationPortRangeStart).created
           /\ TranslateFromIp6Result(State, h, kTranslationPortRangeStart).retry
           /\ ~TranslateFromIp6Result(State, h, kTranslationPortRangeStart + 2).retry

\* In each direction the total is the sum of the three protocol counts.
IsBalanced(aCounters) ==
    /\ aCounters.mTotal.m6To4Packets =
           aCounters.mUdp.m6To4Packets + aCounters.mTcp.m6To4Packets
               + aCounters.mIcmp.m6To4Packets
    /\ aCounters.mTotal.m4To6Packets =
           aCounters.mUdp.m4To6Packets + aCounters.mTcp.m4To6Packets
               + aCounters.mIcmp.m4To6Packets

\* Packet counters a call can start from: cleared ones, and counters that have seen
\* datagrams of every protocol in both directions.
CounterSamples ==
    {ClearedProtocolCounters,
     [mUdp   |-> [m6To4Packets |-> 2, m4To6Packets |-> 1],
      mTcp   |-> [m6To4Packets |-> 1, m4To6Packets |-> 0],
      mIcmp  |-> [m6To4Packets |-> 1, m4To6Packets |-> 1],
      mTotal |-> [m6To4Packets |-> 4, m4To6Packets |-> 2]]}

\* The name of the counter of a protocol.
CounterOf(aProtocol) ==
    CASE aProtocol = kProtoUdp -> "mUdp"
      [] aProtocol = kProtoTcp -> "mTcp"
      [] aProtocol \in {kProtoIcmp6, kProtoIcmp} -> "mIcmp"

\* aAfter is aBefore with one more packet of the protocol and one more in total,
\* in direction aField, and nothing else changed.
IsOneMorePacket(aBefore, aAfter, aProtocol, aField) ==
    aAfter = [aBefore EXCEPT ![CounterOf(aProtocol)][aField] = @ + 1,
                             !.mTotal[aField] = @ + 1]

\* C30: a translation that returns Forward after using a mapping adds one to the
\* aggregate packet counter of the datagram's protocol and to the aggregate total
\* of its direction, and to the same two counters of the mapping used, and to no
\* other packet counter; so the total of each direction stays the sum of the UDP,
\* TCP and ICMP counts; a call that returns Drop or NotTranslated, or Forward
\* without translating, changes no packet counter.
C30_ForwardCountsProtocolAndTotal ==
    \A a \in CounterSamples, m \in CounterSamples :
        LET c == [mCounters |-> a, mapping |-> m]
        IN  /\ \A h \in Ip6Packets, aRandom \in PortCandidates :
                   LET r     == TranslateFromIp6Result(State, h, aRandom)
                       after == TranslateFromIp6Counters(c, r, h.proto)
                       mine  == IF r.created THEN ClearedProtocolCounters ELSE m
                   IN  ~r.retry =>
                           /\ IF r.res = kForward
                              THEN /\ r.mapping # kNull
                                   /\ IsOneMorePacket(a, after.mCounters, h.proto,
                                                      "m6To4Packets")
                                   /\ IsOneMorePacket(mine, after.mapping, h.proto,
                                                      "m6To4Packets")
                              ELSE /\ after.mCounters = a
                                   /\ after.mapping = mine
                           /\ IsBalanced(after.mCounters)
                           /\ IsBalanced(after.mapping)
            /\ \A h \in Ip4Packets :
                   LET r     == TranslateToIp6Result(State, h)
                       after == TranslateToIp6Counters(c, r, h.proto)
                   IN  /\ IF r.res = kForward /\ r.mapping # kNull
                          THEN /\ IsOneMorePacket(a, after.mCounters, h.proto,
                                                  "m4To6Packets")
                               /\ IsOneMorePacket(m, after.mapping, h.proto,
                                                  "m4To6Packets")
                          ELSE after = c
                       /\ IsBalanced(after.mCounters)
                       /\ IsBalanced(after.mapping)

\* A mapping carries a datagram out and one back, and a datagram of an unsupported
\* protocol is dropped in each direction.
C30_Witness ==
    /\ \E h \in Ip6Packets :
           LET r == TranslateFromIp6Result(State, h, kTranslationPortRangeStart)
           IN  r.res = kForward /\ ~r.created /\ h.proto = kProtoIcmp6
    /\ \E h \in Ip4Packets :
           LET r == TranslateToIp6Result(State, h)
           IN  r.res = kForward /\ r.mapping # kNull /\ h.proto = kProtoTcp
    /\ \E h \in Ip6Packets :
           LET r == TranslateFromIp6Result(State, h, kTranslationPortRangeStart)
           IN  r.res = kDrop /\ r.mapping # kNull
    /\ \E h \in Ip4Packets :
           LET r == TranslateToIp6Result(State, h)
           IN  r.res = kDrop /\ r.mapping # kNull

\* C31 as stated: a translation call that returns Drop leaves the mapping table as
\* it was: no mapping is created or removed, no expiry is changed and the address
\* pool is unchanged.
C31_DropLeavesTable ==
    /\ \A h \in Ip6Packets, aRandom \in PortCandidates :
           LET r == TranslateFromIp6Result(State, h, aRandom)
           IN  (r.res = kDrop /\ ~r.retry) => r.st.t = State.t
    /\ \A h \in Ip4Packets :
           LET r == TranslateToIp6Result(State, h)
           IN  r.res = kDrop => r.st.t = State.t

\* C32 as stated: TranslateFromIp6 returns Forward, and creates a mapping, only
\* when the state is Active; in state Disabled or NotRunning no outgoing datagram
\* is translated and no mapping is created.
C32_TranslatesOnlyWhenActive ==
    \A h \in Ip6Packets, aRandom \in PortCandidates :
        LET r == TranslateFromIp6Result(State, h, aRandom)
        IN  (~r.retry /\ (r.res = kForward \/ r.created)) => mState = kStateActive

\* C33: TranslateToIp6 creates and removes no mapping and changes neither the
\* address pool nor the slot pool, whatever it returns: the active list, the
\* address pool, the free list and every mapping but the one FindMapping found are
\* as they were, and of that one only the expiry changes.
C33_TranslateToIp6KeepsTable ==
    \A h \in Ip4Packets :
        LET r == TranslateToIp6Result(State, h)
        IN  /\ r.st.t.active = mActiveAddressMappings
            /\ r.st.t.pool = mIp4AddressPool
            /\ r.st.t.amp.mFreeList = mAddressMappingPool.mFreeList
            /\ r.st.mNextMappingId = mNextMappingId
            /\ \A s \in Slots :
                   IF s = r.mapping
                   THEN r.st.t.amp.mPool[s] =
                            [mAddressMappingPool.mPool[s] EXCEPT
                                !.mExpiry = now + IdleTimeout(h.proto)]
                   ELSE r.st.t.amp.mPool[s] = mAddressMappingPool.mPool[s]

\* Two mappings are active and an incoming datagram finds one of them: its expiry
\* moves, the other mapping and the pools stay.
C33_Witness ==
    /\ Len(mActiveAddressMappings) = 2
    /\ \E h \in Ip4Packets :
           LET r == TranslateToIp6Result(State, h)
           IN  /\ r.mapping # kNull
               /\ r.st.t.amp.mPool[r.mapping].mExpiry
                      # mAddressMappingPool.mPool[r.mapping].mExpiry

\* A translator that is configured and carries traffic while the clock advances.
\* The identifier counter starts at 0, the NAT64 prefix offered is the valid one,
\* and the datagrams are well formed, for the NAT64 prefix, UDP or ICMP echo.
FairInit == Init /\ mNextMappingId = 0

FairIp6Packets ==
    {h \in Ip6Packets : /\ h.parseOk
                        /\ h.dstMatchLen = 96
                        /\ h.srcPortOrId = 33000
                        /\ h.proto \in {kProtoUdp, kProtoIcmp6}
                        /\ h.icmpType = kIcmp6TypeEchoRequest}

FairIp4Packets ==
    {h \in Ip4Packets : /\ h.parseOk
                        /\ h.prependOk
                        /\ h.proto \in {kProtoUdp, kProtoIcmp}
                        /\ h.icmpType = kIcmp4TypeEchoReply}

FairNext ==
    \/ \E aEnabled \in BOOLEAN : SetEnabled(aEnabled)
    \/ ClearIp4Cidr
    \/ ClearNat64Prefix
    \/ \E aCidr \in Ip4Cidrs : SetIp4Cidr(aCidr)
    \/ SetNat64Prefix(96)
    \/ \E h \in FairIp6Packets, aRandom \in PortCandidates : TranslateFromIp6(h, aRandom)
    \/ \E h \in FairIp4Packets : TranslateToIp6(h)
    \/ HandleMappingExpirerTimer
    \/ Tick

\* The timer callback runs once it is due and the clock advances.
FairSpec ==
    FairInit /\ [][FairNext]_vars /\ WF_vars(HandleMappingExpirerTimer) /\ WF_vars(Tick)

\* IPv4 addresses SetIp4Cidr puts in the pool.
PoolAddresses == {CidrBase + i : i \in 0 .. kAddressMappingPoolSize + 1}

\* The mapping in aSlot is active, expired and holds aAddress.
IsExpiredHolding(aSlot, aAddress) ==
    /\ aSlot \in Range(mActiveAddressMappings)
    /\ mAddressMappingPool.mPool[aSlot].mExpiry < now
    /\ mAddressMappingPool.mPool[aSlot].mIp4 = aAddress

\* aSlot is off the active list and free, and with a CIDR of length
\* <= kMaxCidrLenForValidAddrPool aAddress, if it is an address of the CIDR in
\* use, is back in the address pool.
IsReleased(aSlot, aAddress) ==
    /\ aSlot \notin Range(mActiveAddressMappings)
    /\ aSlot \in Range(mAddressMappingPool.mFreeList)
    /\ (LargeCidr /\ aAddress \in HostAddresses) => aAddress \in Range(mIp4AddressPool)

\* aSlot holds a mapping that has not expired: the mapping was touched again, or
\* the slot was released and taken by a new mapping.
IsLive(aSlot) ==
    /\ aSlot \in Range(mActiveAddressMappings)
    /\ mAddressMappingPool.mPool[aSlot].mExpiry >= now

====
